---- MODULE Spec2Model ----
(***************************************************************************)
(* tdo: the entity store (src/models/store.rs), the lifecycle operations   *)
(* (src/services/{tasks,projects,areas}.rs) and the file storage they      *)
(* persist through (src/storage/json.rs).                                  *)
(*                                                                         *)
(* A string is a sequence of one-character strings.  An Option is either   *)
(* the value or None.  A HashMap<Uuid, T> is a function whose domain is    *)
(* the set of keys.  Timestamp::now() is a choice among Times.             *)
(* Uuid::new_v4() is a choice among the identities not yet in the map;     *)
(* Uuid::default() is NilUuid.                                             *)
(***************************************************************************)
EXTENDS Integers, Sequences, FiniteSets, TLC

\* ---------------------------------------------------------------- bounds
MaxTasks == 2
MaxProjects == 2
MaxAreas == 2
MaxTime == 2
\* tasks, projects and areas together that a store grows to
MaxEntities == 2

\* ------------------------------------------------------------- constants
CURRENT_VERSION == 3
NilUuid == 0

\* Option::None of an Option<Uuid>, Option<Timestamp> or Option<Date>; every
\* identity, timestamp and date of the model is a natural number
None == 0 - 1
\* the store file does not exist
NoFile == [ exists |-> FALSE ]

TaskIds == 1..MaxTasks
ProjectIds == 1..MaxProjects
\* identities an area of a loaded file may carry (NilUuid among them)
AreaIds == 0..(MaxAreas - 1)
Times == 1..MaxTime

\* names given to areas, projects and tasks
Names == { <<"a">>, <<"A", "b">> }
\* fuzzy queries: "a" is contained in both names, "b" in one, "c" in none
NameQueries == { <<"a">>, <<"b">>, <<"c">> }
\* decimal identifiers of the task numbers in use and of one that is not
RECURSIVE NumberString(_)
NumberString(n) ==
    IF n < 10 THEN << ToString(n) >>
    ELSE NumberString(n \div 10) \o << ToString(n % 10) >>
NumberQueries == { NumberString(n) : n \in 1..(MaxTasks + 1) }
TaskQueries == NameQueries \cup NumberQueries

\* ---------------------------------------------------------------- state
VARIABLES
    store,      \* the in-memory Store
    disk,       \* the content of the store file, or NoFile
    last        \* the operation that ran last and what it returned

vars == << store, disk, last >>

\* ------------------------------------------------------------- strings
ToLowerChar(c) ==
    IF c = "A" THEN "a" ELSE IF c = "B" THEN "b" ELSE IF c = "C" THEN "c" ELSE c

to_lowercase(s) == [ i \in 1..Len(s) |-> ToLowerChar(s[i]) ]

contains(hay, needle) ==
    \E i \in 0..(Len(hay) - Len(needle)) :
        SubSeq(hay, i + 1, i + Len(needle)) = needle

\* the filter closure of every fuzzy lookup
FuzzyMatch(name, query) == contains(to_lowercase(name), to_lowercase(query))

IsDigit(c) == c \in { "0", "1", "2", "3", "4", "5", "6", "7", "8", "9" }

DigitValue(c) ==
    CASE c = "0" -> 0 [] c = "1" -> 1 [] c = "2" -> 2 [] c = "3" -> 3
      [] c = "4" -> 4 [] c = "5" -> 5 [] c = "6" -> 6 [] c = "7" -> 7
      [] c = "8" -> 8 [] c = "9" -> 9

RECURSIVE DecimalValue(_)
DecimalValue(s) ==
    IF Len(s) = 0 THEN 0
    ELSE 10 * DecimalValue(SubSeq(s, 1, Len(s) - 1)) + DigitValue(s[Len(s)])

\* str::parse::<u64>: Ok on a non-empty run of digits (the model's strings
\* are far too short to overflow 64 bits), Err otherwise
ParsesAsU64(s) == Len(s) > 0 /\ \A i \in 1..Len(s) : IsDigit(s[i])
ParseU64(s) == DecimalValue(s)

\* ------------------------------------------------------------ the Store
MapInsert(m, k, v) == [ x \in (DOMAIN m) \cup {k} |-> IF x = k THEN v ELSE m[x] ]

EmptyMap == [ x \in {} |-> None ]

StoreDefault ==
    [ version |-> CURRENT_VERSION, next_task_number |-> 1,
      tasks |-> EmptyMap, projects |-> EmptyMap, areas |-> EmptyMap ]

Values(m) == { m[k] : k \in DOMAIN m }

\* a to_stored that writes the active entities only
to_stored_ActiveOnly(st) ==
    [ version |-> st.version, next_task_number |-> st.next_task_number,
      tasks |-> { e \in Values(st.tasks) : e.deleted_at = None },
      projects |-> { e \in Values(st.projects) : e.deleted_at = None },
      areas |-> { e \in Values(st.areas) : e.deleted_at = None } ]

to_stored(st) ==
    [ version |-> st.version, next_task_number |-> st.next_task_number,
      tasks |-> Values(st.tasks), projects |-> Values(st.projects),
      areas |-> Values(st.areas) ]

KeyById(entities) ==
    [ id \in { e.id : e \in entities } |-> CHOOSE e \in entities : e.id = id ]

\* a from_stored that starts the counter anew
from_stored_DefaultCounter(stored) ==
    [ version |-> stored.version, next_task_number |-> 1,
      tasks |-> KeyById(stored.tasks), projects |-> KeyById(stored.projects),
      areas |-> KeyById(stored.areas) ]

from_stored(stored) ==
    [ version |-> stored.version, next_task_number |-> stored.next_task_number,
      tasks |-> KeyById(stored.tasks), projects |-> KeyById(stored.projects),
      areas |-> KeyById(stored.areas) ]

\* a Store::add_task that assigns the number and forgets to advance the counter
StoreAddTask_NoIncrement(st, task) ==
    [ st EXCEPT !.tasks = MapInsert(st.tasks, task.id,
                                    [ task EXCEPT !.task_number = st.next_task_number ]) ]

StoreAddTask(st, task) ==
    [ st EXCEPT !.tasks = MapInsert(st.tasks, task.id,
                                    [ task EXCEPT !.task_number = st.next_task_number ]),
                !.next_task_number = st.next_task_number + 1 ]

StoreAddProject(st, project) ==
    [ st EXCEPT !.projects = MapInsert(st.projects, project.id, project) ]

StoreAddArea(st, area) ==
    [ st EXCEPT !.areas = MapInsert(st.areas, area.id, area) ]

\* HashMap::get: Some(entity), written << entity >>, or None, written << >>
get_task(st, id) == IF id \in DOMAIN st.tasks THEN << st.tasks[id] >> ELSE << >>
get_project(st, id) == IF id \in DOMAIN st.projects THEN << st.projects[id] >> ELSE << >>
get_area(st, id) == IF id \in DOMAIN st.areas THEN << st.areas[id] >> ELSE << >>

\* a get_task_by_number that looks among the active tasks only
get_task_by_number_ActiveOnly(st, n) ==
    { id \in DOMAIN st.tasks : st.tasks[id].task_number = n /\ st.tasks[id].deleted_at = None }

get_task_by_number(st, n) == { id \in DOMAIN st.tasks : st.tasks[id].task_number = n }

get_active_tasks(st) == { id \in DOMAIN st.tasks : st.tasks[id].deleted_at = None }
get_active_projects(st) == { id \in DOMAIN st.projects : st.projects[id].deleted_at = None }
get_active_areas(st) == { id \in DOMAIN st.areas : st.areas[id].deleted_at = None }
get_deleted_tasks(st) == { id \in DOMAIN st.tasks : st.tasks[id].deleted_at # None }
get_deleted_projects(st) == { id \in DOMAIN st.projects : st.projects[id].deleted_at # None }
get_deleted_areas(st) == { id \in DOMAIN st.areas : st.areas[id].deleted_at # None }

get_tasks_for_project(st, project_id) ==
    { id \in DOMAIN st.tasks : st.tasks[id].project_id = project_id }

\* a get_projects_for_area that forgets the area
get_projects_for_area_Any(st, area_id) ==
    { id \in DOMAIN st.projects : TRUE }

get_projects_for_area(st, area_id) ==
    { id \in DOMAIN st.projects : st.projects[id].area_id = area_id }

\* a get_tasks_for_area whose project test is inverted
get_tasks_for_area_WithProject(st, area_id) ==
    { id \in DOMAIN st.tasks :
        st.tasks[id].area_id = area_id /\ st.tasks[id].project_id # None }

get_tasks_for_area(st, area_id) ==
    { id \in DOMAIN st.tasks :
        st.tasks[id].area_id = area_id /\ st.tasks[id].project_id = None }

\* ------------------------------------------------------- the file storage
\* JsonFileStorage::save, taken as one step: it returns Ok with the file
\* replaced, or an error raised before the rename (temporary file, lock file,
\* backup, pruning; the file is as it was), or the error of the unlock that
\* follows the rename (the file is already replaced)
SaveOutcomes(st, file) ==
    { [ res |-> "Ok", disk |-> to_stored(st) ],
      [ res |-> "Storage", disk |-> file ],
      [ res |-> "Storage", disk |-> to_stored(st) ] }

\* JsonFileStorage::load of a file of the current version, or of no file
LoadStore(file) == IF file = NoFile THEN StoreDefault ELSE from_stored(file)

\* --------------------------------------------------------- migrations.rs
\* a store file is a JSON object: a record whose fields are the keys present
\* in it.  The number under "version" is written in two 32-bit words: the
\* low word under "version", the high word (bits 32 to 63) under
\* "version_high" when it is not zero; a negative low word stands for a value
\* that is no unsigned integer.
VersionHigh(file) == IF "version_high" \in DOMAIN file THEN file.version_high ELSE 0

\* `n as u32` of the u64 that Value::as_u64 returned: n modulo 2^32, the low
\* word of n
AsU32(high, low) == low

\* a file that holds the beginning of the text of content only
Truncated(content) == [ truncated |-> content ]

\* detect_version returns Ok(version as u32), or Ok(1) when there is no
\* "version" key, or ParseFailed when the text is no JSON document or the
\* value is not an unsigned integer
detect_version(file) ==
    IF "truncated" \in DOMAIN file THEN [ res |-> "ParseFailed", version |-> None ]
    ELSE IF "version" \notin DOMAIN file THEN [ res |-> "Ok", version |-> 1 ]
    ELSE IF file.version < 0 THEN [ res |-> "ParseFailed", version |-> None ]
    ELSE [ res |-> "Ok", version |-> AsU32(VersionHigh(file), file.version) ]

\* the registry: no migration is registered
get_migrations == << >>

\* the result of apply_migrations: Ok(data), or the error with the version
\* it names, or the panic of an arithmetic overflow
MigrationResult(res, data, version) == [ res |-> res, data |-> data, version |-> version ]

\* `migrations[migration_idx](data)`: a registered step is written as the
\* mark it leaves, and the document it is run on as the list of the marks
\* left so far
RunMigration(migration, data) == Append(data, migration)

\* the loop of apply_migrations over from_version..to_version with the
\* registry `migrations`, a sequence of steps.  `version - 1` is a u32
\* subtraction: at version 0 it panics in a build with overflow checks and
\* wraps to u32::MAX, an index no registry has, in a build without.
RECURSIVE MigrationLoop(_, _, _, _, _)
MigrationLoop(migrations, data, version, to_version, overflow_checks) ==
    IF version >= to_version THEN MigrationResult("Ok", data, None)
    ELSE IF version = 0
        THEN IF overflow_checks THEN MigrationResult("Panic", None, None)
             ELSE MigrationResult("UnsupportedVersion", None, version)
    ELSE LET migration_idx == version - 1
         IN  IF migration_idx >= Len(migrations)
             THEN MigrationResult("UnsupportedVersion", None, version)
             ELSE MigrationLoop(migrations, RunMigration(migrations[migration_idx + 1], data),
                                version + 1, to_version, overflow_checks)

\* apply_migrations with the registry `migrations`
ApplyMigrationsWith(migrations, data, from_version, to_version, overflow_checks) ==
    IF from_version = to_version THEN MigrationResult("Ok", data, None)
    ELSE IF from_version > to_version
        THEN MigrationResult("FutureVersion", None, from_version)
    ELSE MigrationLoop(migrations, data, from_version, to_version, overflow_checks)

apply_migrations(data, from_version, to_version, overflow_checks) ==
    ApplyMigrationsWith(get_migrations, data, from_version, to_version, overflow_checks)

\* the builds of the program: with and without overflow checks
Builds == BOOLEAN

\* serde_json::from_value::<StoredStore>: every field of StoredStore must be
\* present (the version was inserted just before)
StoredStoreKeys == { "version", "next_task_number", "tasks", "projects", "areas" }

\* JsonFileStorage::load: what it returns for the file (NoFile: NotFound)
LoadResult(res, st, version) == [ res |-> res, store |-> st, version |-> version ]

\* load of a file that was read: the part of load after read_to_string
LoadContent(file, overflow_checks) ==
    LET detected == detect_version(file)
        file_version == detected.version
        migrated == IF file_version < CURRENT_VERSION
                    THEN apply_migrations(file, file_version, CURRENT_VERSION,
                                          overflow_checks)
                    ELSE MigrationResult("Ok", file, None)
    IN  IF detected.res # "Ok" THEN LoadResult(detected.res, None, None)
        ELSE IF file_version > CURRENT_VERSION
            THEN LoadResult("FutureVersion", None, file_version)
        ELSE IF migrated.res # "Ok" THEN LoadResult(migrated.res, None, migrated.version)
        ELSE
        LET data == [ k \in ((DOMAIN migrated.data) \ { "version_high" }) \cup { "version" } |->
                        IF k = "version" THEN CURRENT_VERSION ELSE migrated.data[k] ]
        IN  IF DOMAIN data # StoredStoreKeys THEN LoadResult("ParseFailed", None, None)
            ELSE LoadResult("Ok", from_stored(data), None)

\* a load that takes the missing file for any other read error
load_MissingFileFails(file, overflow_checks) ==
    IF file = NoFile THEN LoadResult("LoadFailed", None, None)
    ELSE LoadContent(file, overflow_checks)

load(file, overflow_checks) ==
    IF file = NoFile THEN LoadResult("Ok", StoreDefault, None)
    ELSE LoadContent(file, overflow_checks)

\* ------------------------------------------ the directory of the store file
\* the store file, the lock file beside it and the backups directory with
\* its files, each under its name: the instant get_backup_path read
BackupsKept == 5

Directory(file, lock_file, backups_dir, backups) ==
    [ file |-> file, lock_file |-> lock_file, backups_dir |-> backups_dir,
      backups |-> backups ]

EmptyDirectory == Directory(NoFile, FALSE, FALSE, EmptyMap)

\* create_backup at the instant now: nothing when the store file does not
\* exist; otherwise fs::copy to the backup path, an existing file of that
\* name overwritten, after create_backup_dir when the directory is missing
create_backup(dir, now) ==
    IF dir.file = NoFile THEN dir
    ELSE [ dir EXCEPT !.backups_dir = TRUE, !.backups = MapInsert(@, now, dir.file) ]

\* the first n paths of the sorted file_entries
FirstEntries(names, n) == { e \in names : Cardinality({ f \in names : f < e }) < n }

RemoveEntries(dir, removed) ==
    [ dir EXCEPT !.backups = [ e \in (DOMAIN @) \ removed |-> @[e] ] ]

number_of_files_to_delete(dir) ==
    LET x == Cardinality(DOMAIN dir.backups)
    IN  IF x > BackupsKept THEN x - BackupsKept ELSE 0

cleanup_old_backups(dir) ==
    IF ~ dir.backups_dir THEN dir
    ELSE RemoveEntries(dir, FirstEntries(DOMAIN dir.backups, number_of_files_to_delete(dir)))

\* JsonFileStorage::save on the directory, the backup path read at the
\* instant now: every way it returns, with the directory it leaves
SaveResult(res, dir) == [ res |-> res, disk |-> dir ]

save(dir, st, now) ==
    LET locked == [ dir EXCEPT !.lock_file = TRUE ]
        backed_up == create_backup(locked, now)
        cleaned == cleanup_old_backups(backed_up)
        renamed == [ cleaned EXCEPT !.file = to_stored(st) ]
    IN  \* the temporary file cannot be written, the lock file cannot be opened
        { SaveResult("SaveFailed", dir) }
        \* lock_exclusive fails
        \cup { SaveResult("SaveFailed", locked) }
        \* fs::exists or fs::copy fails, before or after create_backup_dir
        \cup { SaveResult("BackupFailed", locked) }
        \cup ( IF dir.file = NoFile THEN {}
               ELSE { SaveResult("BackupFailed", [ locked EXCEPT !.backups_dir = TRUE ]) } )
        \* fs::exists or read_dir fails, or a remove_file after n files were removed
        \cup { SaveResult("CleanupFailed", backed_up) }
        \cup { SaveResult("CleanupFailed",
                          RemoveEntries(backed_up, FirstEntries(DOMAIN backed_up.backups, n))) :
                 n \in 0..(number_of_files_to_delete(backed_up) - 1) }
        \* rename fails
        \cup { SaveResult("SaveFailed", cleaned) }
        \* unlock fails after the rename
        \cup { SaveResult("SaveFailed", renamed) }
        \cup { SaveResult("Ok", renamed) }

\* ----------------------------------------------- results of an operation
\* what a lifecycle operation has done to the store before it calls save
\* (res = "Ok"), or the error it returned without mutating anything
\* the Vec<String> an Ambiguous* error carries, up to its order (the order in
\* which the map's values are iterated): how often each name occurs
NoNames == << >>
CollectNames(name_of) ==
    [ n \in { name_of[i] : i \in DOMAIN name_of } |->
        Cardinality({ i \in DOMAIN name_of : name_of[i] = n }) ]

Outcome(res, st, id, projects_count, tasks_count) ==
    [ res |-> res, store |-> st, id |-> id,
      cascaded_projects_count |-> projects_count,
      cascaded_tasks_count |-> tasks_count,
      names |-> NoNames ]

Rejected(error, st) == Outcome(error, st, None, 0, 0)
Ambiguous(error, st, names) == [ Rejected(error, st) EXCEPT !.names = names ]
Mutated(st, id) == Outcome("Ok", st, id, 0, 0)

\* what the caller gets back; saves is the number of calls of Storage::save
\* the operation made
Returned(op, res, id, projects_count, tasks_count, names, saves) ==
    [ op |-> op, res |-> res, id |-> id,
      cascaded_projects_count |-> projects_count,
      cascaded_tasks_count |-> tasks_count,
      names |-> names, saves |-> saves, version |-> None ]

\* what main does with the result of load(): the store of an Ok is the
\* process's store, an error is printed with the version it names and the
\* process exits without a store, as it does when load() panics
Loaded(loaded) ==
    [ Returned("load", loaded.res, None, 0, 0, NoNames, 0)
        EXCEPT !.version = loaded.version ]

\* ------------------------------------------------------------ areas.rs
create_area(st, name) ==
    LET area == [ id |-> NilUuid, name |-> name, deleted_at |-> None ]
    IN  Mutated(StoreAddArea(st, area), area.id)

\* a hard delete: the entities leave the map instead of being stamped
SetDeleted_Removes(m, ids, stamp) ==
    IF stamp = None THEN [ id \in DOMAIN m |-> m[id] ]
    ELSE [ id \in (DOMAIN m) \ ids |-> m[id] ]

\* entity.deleted_at = stamp for the entities of ids, through get_*_mut
SetDeleted(m, ids, stamp) ==
    [ id \in DOMAIN m |-> IF id \in ids THEN [ m[id] EXCEPT !.deleted_at = stamp ] ELSE m[id] ]

\* the loop with `total_tasks_deleted = task_ids.len()` for `+=`
RECURSIVE CascadeProjects_LastCount(_, _, _)
CascadeProjects_LastCount(acc, project_ids, now) ==
    IF project_ids = {} THEN acc
    ELSE LET project_id == CHOOSE p \in project_ids : TRUE
             task_ids == get_tasks_for_project(acc.store, project_id)
                             \cap get_active_tasks(acc.store)
         IN  CascadeProjects_LastCount(
                 [ store |-> [ acc.store EXCEPT
                                 !.tasks = SetDeleted(acc.store.tasks, task_ids, now) ],
                   total_tasks_deleted |-> Cardinality(task_ids) ],
                 project_ids \ {project_id}, now)

\* the loop reading the clock again for the tasks, after `now` was taken
RECURSIVE CascadeProjects_OwnClock(_, _, _)
CascadeProjects_OwnClock(acc, project_ids, now) ==
    IF project_ids = {} THEN acc
    ELSE LET project_id == CHOOSE p \in project_ids : TRUE
             task_ids == get_tasks_for_project(acc.store, project_id)
                             \cap get_active_tasks(acc.store)
         IN  CascadeProjects_OwnClock(
                 [ store |-> [ acc.store EXCEPT
                                 !.tasks = SetDeleted(acc.store.tasks, task_ids, now + 1) ],
                   total_tasks_deleted |-> acc.total_tasks_deleted + Cardinality(task_ids) ],
                 project_ids \ {project_id}, now)

\* the loop over project_ids_to_delete: acc is the store and the count so far
RECURSIVE CascadeProjects(_, _, _)
CascadeProjects(acc, project_ids, now) ==
    IF project_ids = {} THEN acc
    ELSE LET project_id == CHOOSE p \in project_ids : TRUE
             task_ids == get_tasks_for_project(acc.store, project_id)
                             \cap get_active_tasks(acc.store)
         IN  CascadeProjects(
                 [ store |-> [ acc.store EXCEPT
                                 !.tasks = SetDeleted(acc.store.tasks, task_ids, now) ],
                   total_tasks_deleted |-> acc.total_tasks_deleted + Cardinality(task_ids) ],
                 project_ids \ {project_id}, now)

delete_area(st, name, now) ==
    LET matching_areas == { id \in get_active_areas(st) : FuzzyMatch(st.areas[id].name, name) }
    IN  IF Cardinality(matching_areas) # 1 THEN Rejected("AreaNotFound", st)
        ELSE
        LET area_id == CHOOSE id \in matching_areas : TRUE
            project_ids_to_delete ==
                get_projects_for_area(st, area_id) \cap get_active_projects(st)
            cascaded == CascadeProjects([ store |-> st, total_tasks_deleted |-> 0 ],
                                        project_ids_to_delete, now)
            st1 == [ cascaded.store EXCEPT
                       !.projects = SetDeleted(cascaded.store.projects,
                                               project_ids_to_delete, now) ]
            direct_task_ids == get_tasks_for_area(st1, area_id) \cap get_active_tasks(st1)
            st2 == [ st1 EXCEPT !.tasks = SetDeleted(st1.tasks, direct_task_ids, now) ]
            st3 == [ st2 EXCEPT !.areas = SetDeleted(st2.areas, {area_id}, now) ]
        IN  Outcome("Ok", st3, area_id, Cardinality(project_ids_to_delete),
                    cascaded.total_tasks_deleted + Cardinality(direct_task_ids))

\* a restore_area that brings the projects of the area back with it
restore_area_Cascades(st, name) ==
    LET matching_areas == { id \in get_deleted_areas(st) : FuzzyMatch(st.areas[id].name, name) }
    IN  IF Cardinality(matching_areas) # 1 THEN Rejected("AreaNotFound", st)
        ELSE
        LET area_id == CHOOSE id \in matching_areas : TRUE
        IN  Mutated([ st EXCEPT !.areas = SetDeleted(st.areas, {area_id}, None),
                                !.projects = SetDeleted(st.projects,
                                    get_projects_for_area(st, area_id), None) ],
                    area_id)

\* a restore_area that takes the first of several matches
restore_area_TakesFirstMatch(st, name) ==
    LET matching_areas == { id \in get_deleted_areas(st) : FuzzyMatch(st.areas[id].name, name) }
    IN  IF matching_areas = {} THEN Rejected("AreaNotFound", st)
        ELSE
        LET area_id == CHOOSE id \in matching_areas : TRUE
        IN  Mutated([ st EXCEPT !.areas = SetDeleted(st.areas, {area_id}, None) ], area_id)

restore_area(st, name) ==
    LET matching_areas == { id \in get_deleted_areas(st) : FuzzyMatch(st.areas[id].name, name) }
    IN  IF Cardinality(matching_areas) # 1 THEN Rejected("AreaNotFound", st)
        ELSE
        LET area_id == CHOOSE id \in matching_areas : TRUE
        IN  Mutated([ st EXCEPT !.areas = SetDeleted(st.areas, {area_id}, None) ], area_id)

\* ---------------------------------------------------------- projects.rs
\* a create_project that leaves the identity to Project::default(), as
\* create_area does with Area::default()
create_project_DefaultId(st, name, id) ==
    LET project == [ id |-> 1, name |-> name, area_id |-> None,
                     completed_at |-> None, deleted_at |-> None ]
    IN  Mutated(StoreAddProject(st, project), project.id)

create_project(st, name, id) ==
    LET project == [ id |-> id, name |-> name, area_id |-> None,
                     completed_at |-> None, deleted_at |-> None ]
    IN  Mutated(StoreAddProject(st, project), project.id)

\* a delete_project that reports the names as it compared them, in lower case
delete_project_LowercaseNames(st, name, now) ==
    LET matching_projects ==
            { id \in get_active_projects(st) : FuzzyMatch(st.projects[id].name, name) }
    IN  IF matching_projects = {} THEN Rejected("ProjectNotFound", st)
        ELSE IF Cardinality(matching_projects) > 1
            THEN Ambiguous("AmbiguousProjectName", st,
                           CollectNames([ p \in matching_projects |->
                                            to_lowercase(st.projects[p].name) ]))
        ELSE
        LET project_id == CHOOSE id \in matching_projects : TRUE
            task_ids_to_delete == get_tasks_for_project(st, project_id) \cap get_active_tasks(st)
            st1 == [ st EXCEPT !.tasks = SetDeleted(st.tasks, task_ids_to_delete, now) ]
            st2 == [ st1 EXCEPT !.projects = SetDeleted(st1.projects, {project_id}, now) ]
        IN  Outcome("Ok", st2, project_id, 0, Cardinality(task_ids_to_delete))

\* a delete_project that counts every task of the project, deleted or not
delete_project_CountsAll(st, name, now) ==
    LET matching_projects ==
            { id \in get_active_projects(st) : FuzzyMatch(st.projects[id].name, name) }
    IN  IF matching_projects = {} THEN Rejected("ProjectNotFound", st)
        ELSE IF Cardinality(matching_projects) > 1
            THEN Ambiguous("AmbiguousProjectName", st,
                           CollectNames([ p \in matching_projects |-> st.projects[p].name ]))
        ELSE
        LET project_id == CHOOSE id \in matching_projects : TRUE
            task_ids_to_delete == get_tasks_for_project(st, project_id) \cap get_active_tasks(st)
            st1 == [ st EXCEPT !.tasks = SetDeleted(st.tasks, task_ids_to_delete, now) ]
            st2 == [ st1 EXCEPT !.projects = SetDeleted(st1.projects, {project_id}, now) ]
        IN  Outcome("Ok", st2, project_id, 0,
                    Cardinality(get_tasks_for_project(st, project_id)))

delete_project(st, name, now) ==
    LET matching_projects ==
            { id \in get_active_projects(st) : FuzzyMatch(st.projects[id].name, name) }
    IN  IF matching_projects = {} THEN Rejected("ProjectNotFound", st)
        ELSE IF Cardinality(matching_projects) > 1
            THEN Ambiguous("AmbiguousProjectName", st,
                           CollectNames([ p \in matching_projects |-> st.projects[p].name ]))
        ELSE
        LET project_id == CHOOSE id \in matching_projects : TRUE
            task_ids_to_delete == get_tasks_for_project(st, project_id) \cap get_active_tasks(st)
            st1 == [ st EXCEPT !.tasks = SetDeleted(st.tasks, task_ids_to_delete, now) ]
            st2 == [ st1 EXCEPT !.projects = SetDeleted(st1.projects, {project_id}, now) ]
        IN  Outcome("Ok", st2, project_id, 0, Cardinality(task_ids_to_delete))

restore_project(st, name) ==
    LET matching_projects ==
            { id \in get_deleted_projects(st) : FuzzyMatch(st.projects[id].name, name) }
    IN  IF Cardinality(matching_projects) # 1 THEN Rejected("ProjectNotFound", st)
        ELSE
        LET project_id == CHOOSE id \in matching_projects : TRUE
        IN  Mutated([ st EXCEPT !.projects = SetDeleted(st.projects, {project_id}, None) ],
                    project_id)

\* ------------------------------------------------------------- tasks.rs
\* Option<String>: NoString is None, SomeString(s) is Some(s)
NoString == << >>
SomeString(s) == << s >>

\* str::parse::<Date> of the deadline strings the model passes: the date, or
\* None for the string that is not a date
ParseDate(s) == IF s = "2025-06-01" THEN 20250601 ELSE None

\* an add_task that puts the task in the store before it parses the deadline
add_task_InsertsBeforeDeadline(st, title, project, area, deadline, id) ==
    LET matching_projects ==
            { p \in get_active_projects(st) : FuzzyMatch(st.projects[p].name, project[1]) }
        matching_areas ==
            { a \in get_active_areas(st) : FuzzyMatch(st.areas[a].name, area[1]) }
    IN  IF project # NoString /\ matching_projects = {} THEN Rejected("ProjectNotFound", st)
        ELSE IF project # NoString /\ Cardinality(matching_projects) > 1
            THEN Ambiguous("AmbiguousProjectName", st,
                           CollectNames([ p \in matching_projects |-> st.projects[p].name ]))
        ELSE IF area # NoString /\ matching_areas = {} THEN Rejected("AreaNotFound", st)
        ELSE IF area # NoString /\ Cardinality(matching_areas) > 1
            THEN Ambiguous("AmbiguousAreaName", st,
                           CollectNames([ a \in matching_areas |-> st.areas[a].name ]))
        ELSE
        LET task == [ id |-> id,
                      task_number |-> 0,
                      title |-> title,
                      project_id |-> IF project = NoString THEN None
                                     ELSE CHOOSE p \in matching_projects : TRUE,
                      area_id |-> IF area = NoString THEN None
                                  ELSE CHOOSE a \in matching_areas : TRUE,
                      deadline |-> IF deadline = NoString THEN None
                                   ELSE ParseDate(deadline[1]),
                      completed_at |-> None,
                      deleted_at |-> None ]
        IN  IF deadline # NoString /\ ParseDate(deadline[1]) = None
            THEN Rejected("InvalidDeadline", StoreAddTask(st, task))
            ELSE Mutated(StoreAddTask(st, task), task.id)

add_task(st, title, project, area, deadline, id) ==
    LET matching_projects ==
            { p \in get_active_projects(st) : FuzzyMatch(st.projects[p].name, project[1]) }
        matching_areas ==
            { a \in get_active_areas(st) : FuzzyMatch(st.areas[a].name, area[1]) }
    IN  IF project # NoString /\ matching_projects = {} THEN Rejected("ProjectNotFound", st)
        ELSE IF project # NoString /\ Cardinality(matching_projects) > 1
            THEN Ambiguous("AmbiguousProjectName", st,
                           CollectNames([ p \in matching_projects |-> st.projects[p].name ]))
        ELSE IF area # NoString /\ matching_areas = {} THEN Rejected("AreaNotFound", st)
        ELSE IF area # NoString /\ Cardinality(matching_areas) > 1
            THEN Ambiguous("AmbiguousAreaName", st,
                           CollectNames([ a \in matching_areas |-> st.areas[a].name ]))
        ELSE IF deadline # NoString /\ ParseDate(deadline[1]) = None
            THEN Rejected("InvalidDeadline", st)
        ELSE
        LET task == [ id |-> id,
                      task_number |-> 0,
                      title |-> title,
                      project_id |-> IF project = NoString THEN None
                                     ELSE CHOOSE p \in matching_projects : TRUE,
                      area_id |-> IF area = NoString THEN None
                                  ELSE CHOOSE a \in matching_areas : TRUE,
                      deadline |-> IF deadline = NoString THEN None
                                   ELSE ParseDate(deadline[1]),
                      completed_at |-> None,
                      deleted_at |-> None ]
        IN  Mutated(StoreAddTask(st, task), task.id)

\* services::add::add_task (services/add.rs): the same steps, with the names
\* looked up among store.projects.values() and store.areas.values()
add_add_task(st, title, project, area, deadline, id) ==
    LET matching_projects ==
            { p \in DOMAIN st.projects : FuzzyMatch(st.projects[p].name, project[1]) }
        matching_areas ==
            { a \in DOMAIN st.areas : FuzzyMatch(st.areas[a].name, area[1]) }
    IN  IF project # NoString /\ matching_projects = {} THEN Rejected("ProjectNotFound", st)
        ELSE IF project # NoString /\ Cardinality(matching_projects) > 1
            THEN Ambiguous("AmbiguousProjectName", st,
                           CollectNames([ p \in matching_projects |-> st.projects[p].name ]))
        ELSE IF area # NoString /\ matching_areas = {} THEN Rejected("AreaNotFound", st)
        ELSE IF area # NoString /\ Cardinality(matching_areas) > 1
            THEN Ambiguous("AmbiguousAreaName", st,
                           CollectNames([ a \in matching_areas |-> st.areas[a].name ]))
        ELSE IF deadline # NoString /\ ParseDate(deadline[1]) = None
            THEN Rejected("InvalidDeadline", st)
        ELSE
        LET task == [ id |-> id,
                      task_number |-> 0,
                      title |-> title,
                      project_id |-> IF project = NoString THEN None
                                     ELSE CHOOSE p \in matching_projects : TRUE,
                      area_id |-> IF area = NoString THEN None
                                  ELSE CHOOSE a \in matching_areas : TRUE,
                      deadline |-> IF deadline = NoString THEN None
                                   ELSE ParseDate(deadline[1]),
                      completed_at |-> None,
                      deleted_at |-> None ]
        IN  Mutated(StoreAddTask(st, task), task.id)

\* what Store::get_task_by_number may return for the identifier: any task that
\* carries the number (find on the map's values), None when there is none or
\* when the identifier is not a number
NumberLookups(st, identifier) ==
    IF ParsesAsU64(identifier) /\ get_task_by_number(st, ParseU64(identifier)) # {}
    THEN get_task_by_number(st, ParseU64(identifier))
    ELSE { None }

\* a complete_task that tries the titles when no task carries the number
complete_task_FallsBackToTitle(st, identifier, now, by_number) ==
    LET matching_tasks ==
            { id \in get_active_tasks(st) :
                /\ st.tasks[id].completed_at = None
                /\ FuzzyMatch(st.tasks[id].title, identifier) }
        complete(task_id) ==
            Mutated([ st EXCEPT !.tasks = MapInsert(st.tasks, st.tasks[task_id].id,
                          [ st.tasks[task_id] EXCEPT !.completed_at = now ]) ],
                    task_id)
    IN  IF ParsesAsU64(identifier) /\ by_number # None
        THEN complete(by_number)
        ELSE IF matching_tasks = {} THEN Rejected("TaskNotFound", st)
        ELSE IF Cardinality(matching_tasks) > 1
            THEN Ambiguous("AmbiguousTaskName", st,
                           CollectNames([ t \in matching_tasks |-> st.tasks[t].title ]))
        ELSE complete(CHOOSE id \in matching_tasks : TRUE)

complete_task(st, identifier, now, by_number) ==
    LET matching_tasks ==
            { id \in get_active_tasks(st) :
                /\ st.tasks[id].completed_at = None
                /\ FuzzyMatch(st.tasks[id].title, identifier) }
        complete(task_id) ==
            Mutated([ st EXCEPT !.tasks = MapInsert(st.tasks, st.tasks[task_id].id,
                          [ st.tasks[task_id] EXCEPT !.completed_at = now ]) ],
                    task_id)
    IN  IF ParsesAsU64(identifier)
        THEN IF by_number = None THEN Rejected("TaskNotFound", st) ELSE complete(by_number)
        ELSE IF matching_tasks = {} THEN Rejected("TaskNotFound", st)
        ELSE IF Cardinality(matching_tasks) > 1
            THEN Ambiguous("AmbiguousTaskName", st,
                           CollectNames([ t \in matching_tasks |-> st.tasks[t].title ]))
        ELSE complete(CHOOSE id \in matching_tasks : TRUE)

\* a delete_task without the check for a task that is already deleted
delete_task_StampsAgain(st, identifier, now, by_number) ==
    LET matching_tasks ==
            { id \in get_active_tasks(st) : FuzzyMatch(st.tasks[id].title, identifier) }
        delete(task_id) ==
            IF FALSE THEN Rejected("TaskAlreadyDeleted", st)
            ELSE Mutated([ st EXCEPT !.tasks = MapInsert(st.tasks, st.tasks[task_id].id,
                               [ st.tasks[task_id] EXCEPT !.deleted_at = now ]) ],
                         task_id)
    IN  IF ParsesAsU64(identifier)
        THEN IF by_number = None THEN Rejected("TaskNotFound", st) ELSE delete(by_number)
        ELSE IF matching_tasks = {} THEN Rejected("TaskNotFound", st)
        ELSE IF Cardinality(matching_tasks) > 1
            THEN Ambiguous("AmbiguousTaskName", st,
                           CollectNames([ t \in matching_tasks |-> st.tasks[t].title ]))
        ELSE delete(CHOOSE id \in matching_tasks : TRUE)

delete_task(st, identifier, now, by_number) ==
    LET matching_tasks ==
            { id \in get_active_tasks(st) : FuzzyMatch(st.tasks[id].title, identifier) }
        delete(task_id) ==
            IF st.tasks[task_id].deleted_at # None THEN Rejected("TaskAlreadyDeleted", st)
            ELSE Mutated([ st EXCEPT !.tasks = MapInsert(st.tasks, st.tasks[task_id].id,
                               [ st.tasks[task_id] EXCEPT !.deleted_at = now ]) ],
                         task_id)
    IN  IF ParsesAsU64(identifier)
        THEN IF by_number = None THEN Rejected("TaskNotFound", st) ELSE delete(by_number)
        ELSE IF matching_tasks = {} THEN Rejected("TaskNotFound", st)
        ELSE IF Cardinality(matching_tasks) > 1
            THEN Ambiguous("AmbiguousTaskName", st,
                           CollectNames([ t \in matching_tasks |-> st.tasks[t].title ]))
        ELSE delete(CHOOSE id \in matching_tasks : TRUE)

\* a restore_task that builds the restored task anew, as not completed
restore_task_Reopens(st, by_number) ==
    IF by_number = None THEN Rejected("TaskNotFound", st)
    ELSE IF st.tasks[by_number].deleted_at = None THEN Rejected("TaskNotDeleted", st)
    ELSE Mutated([ st EXCEPT !.tasks = MapInsert(st.tasks, st.tasks[by_number].id,
                       [ st.tasks[by_number] EXCEPT !.deleted_at = None,
                                                    !.completed_at = None ]) ],
                 by_number)

\* a restore_task that hands the restored task a new number
restore_task_Renumbers(st, by_number) ==
    IF by_number = None THEN Rejected("TaskNotFound", st)
    ELSE IF st.tasks[by_number].deleted_at = None THEN Rejected("TaskNotDeleted", st)
    ELSE Mutated([ st EXCEPT !.tasks = MapInsert(st.tasks, st.tasks[by_number].id,
                       [ st.tasks[by_number] EXCEPT !.deleted_at = None,
                                                    !.task_number = st.next_task_number ]),
                             !.next_task_number = st.next_task_number + 1 ],
                 by_number)

restore_task(st, by_number) ==
    IF by_number = None THEN Rejected("TaskNotFound", st)
    ELSE IF st.tasks[by_number].deleted_at = None THEN Rejected("TaskNotDeleted", st)
    ELSE Mutated([ st EXCEPT !.tasks = MapInsert(st.tasks, st.tasks[by_number].id,
                       [ st.tasks[by_number] EXCEPT !.deleted_at = None ]) ],
                 by_number)

\* ---------------------------------------------------------------- ui.rs
\* format!("{} / {}", area.name, project.name)
AreaSlashProject(area_name, project_name) ==
    area_name \o << " ", "/", " " >> \o project_name

\* a get_task_context that gives up when the area of the project is missing
get_task_context_NoFallback(task, st) ==
    IF task.project_id # None /\ task.project_id \in DOMAIN st.projects
    THEN LET project == st.projects[task.project_id]
         IN  IF project.area_id = None THEN SomeString(project.name)
             ELSE IF project.area_id \in DOMAIN st.areas
             THEN SomeString(AreaSlashProject(st.areas[project.area_id].name, project.name))
             ELSE NoString
    ELSE IF task.area_id # None /\ task.area_id \in DOMAIN st.areas
    THEN SomeString(st.areas[task.area_id].name)
    ELSE NoString

\* Store::get_project and Store::get_area look the identity up among all the
\* entities of the map, deleted or not
get_task_context(task, st) ==
    IF task.project_id # None /\ task.project_id \in DOMAIN st.projects
    THEN LET project == st.projects[task.project_id]
         IN  IF project.area_id # None /\ project.area_id \in DOMAIN st.areas
             THEN SomeString(AreaSlashProject(st.areas[project.area_id].name, project.name))
             ELSE SomeString(project.name)
    ELSE IF task.area_id # None /\ task.area_id \in DOMAIN st.areas
    THEN SomeString(st.areas[task.area_id].name)
    ELSE NoString

\* ------------------------------------------------------------ behaviour
\* main() prints the error an operation returns and exits the process; the
\* next invocation starts with load()
Running == last.res = "Ok"

EntityCount(st) ==
    Cardinality(DOMAIN st.tasks) + Cardinality(DOMAIN st.projects)
        + Cardinality(DOMAIN st.areas)
\* Uuid::new_v4(): an identity no entity of the map carries; the unused
\* identities are interchangeable, so the model takes the least of them
FreshIds(pool, m) ==
    IF pool \ DOMAIN m = {} THEN {}
    ELSE { CHOOSE id \in pool \ DOMAIN m : \A other \in pool \ DOMAIN m : id <= other }

\* the store grows to MaxEntities entities, or to one task, one project and
\* one area; m is the map the new entity goes to
CanCreate(m) ==
    \/ EntityCount(store) < MaxEntities
    \/ /\ m = EmptyMap
       /\ \A other \in { store.tasks, store.projects, store.areas } :
             Cardinality(DOMAIN other) <= 1

\* a tail that calls save before the operation has written the store
Commit_SavesFirst(op, out) ==
    IF out.res # "Ok"
    THEN /\ store' = out.store
         /\ disk' = disk
         /\ last' = Returned(op, out.res, None, 0, 0, out.names, 0)
    ELSE \E saved \in SaveOutcomes(store, disk) :
            /\ store' = out.store
            /\ disk' = saved.disk
            /\ last' = IF saved.res = "Ok"
                       THEN Returned(op, "Ok", out.id, out.cascaded_projects_count,
                                     out.cascaded_tasks_count, NoNames, 1)
                       ELSE Returned(op, saved.res, None, 0, 0, NoNames, 1)

\* a tail that puts the store back as it was when save fails
Commit_RollsBack(op, out) ==
    IF out.res # "Ok"
    THEN /\ store' = out.store
         /\ disk' = disk
         /\ last' = Returned(op, out.res, None, 0, 0, out.names, 0)
    ELSE \E saved \in SaveOutcomes(out.store, disk) :
            /\ store' = IF saved.res = "Ok" THEN out.store ELSE store
            /\ disk' = saved.disk
            /\ last' = IF saved.res = "Ok"
                       THEN Returned(op, "Ok", out.id, out.cascaded_projects_count,
                                     out.cascaded_tasks_count, NoNames, 1)
                       ELSE Returned(op, saved.res, None, 0, 0, NoNames, 1)

\* the tail every lifecycle operation shares: an error found while resolving
\* or validating is returned as it is; otherwise the mutated store is saved,
\* and the result is returned if save returned Ok, else the storage error
Commit(op, out) ==
    IF out.res # "Ok"
    THEN /\ store' = out.store
         /\ disk' = disk
         /\ last' = Returned(op, out.res, None, 0, 0, out.names, 0)
    ELSE \E saved \in SaveOutcomes(out.store, disk) :
            /\ store' = out.store
            /\ disk' = saved.disk
            /\ last' = IF saved.res = "Ok"
                       THEN Returned(op, "Ok", out.id, out.cascaded_projects_count,
                                     out.cascaded_tasks_count, NoNames, 1)
                       ELSE Returned(op, saved.res, None, 0, 0, NoNames, 1)

OptionalQueries == { NoString } \cup { SomeString(q) : q \in NameQueries }
DeadlineInputs == { NoString, SomeString("2025-06-01"), SomeString("soon") }

CreateArea ==
    /\ Running
    /\ CanCreate(store.areas)
    /\ \E name \in Names : Commit("create_area", create_area(store, name))

DeleteArea ==
    /\ Running
    /\ \E name \in NameQueries, now \in Times :
          Commit("delete_area", delete_area(store, name, now))

RestoreArea ==
    /\ Running
    /\ \E name \in NameQueries : Commit("restore_area", restore_area(store, name))

CreateProject ==
    /\ Running
    /\ CanCreate(store.projects)
    /\ \E name \in Names, id \in FreshIds(ProjectIds, store.projects) :
          Commit("create_project", create_project(store, name, id))

DeleteProject ==
    /\ Running
    /\ \E name \in NameQueries, now \in Times :
          Commit("delete_project", delete_project(store, name, now))

RestoreProject ==
    /\ Running
    /\ \E name \in NameQueries : Commit("restore_project", restore_project(store, name))

AddTask ==
    /\ Running
    /\ CanCreate(store.tasks)
    /\ store.next_task_number <= MaxTasks
    /\ \E title \in Names, project \in OptionalQueries, area \in OptionalQueries,
          deadline \in DeadlineInputs, id \in FreshIds(TaskIds, store.tasks) :
          Commit("add_task", add_task(store, title, project, area, deadline, id))

CompleteTask ==
    /\ Running
    /\ \E identifier \in TaskQueries, now \in Times :
          \E by_number \in NumberLookups(store, identifier) :
             Commit("complete_task", complete_task(store, identifier, now, by_number))

DeleteTask ==
    /\ Running
    /\ \E identifier \in TaskQueries, now \in Times :
          \E by_number \in NumberLookups(store, identifier) :
             Commit("delete_task", delete_task(store, identifier, now, by_number))

RestoreTask ==
    /\ Running
    /\ \E task_number \in 1..(MaxTasks + 1) :
          \E by_number \in NumberLookups(store, NumberString(task_number)) :
             Commit("restore_task", restore_task(store, by_number))

\* a new process after the exit: load() replaces the store by the file's
Load ==
    /\ ~ Running
    /\ \E overflow_checks \in Builds :
       LET loaded == load(disk, overflow_checks)
       IN  /\ store' = IF loaded.res = "Ok" THEN loaded.store ELSE StoreDefault
           /\ last' = Loaded(loaded)
    /\ UNCHANGED disk

Init ==
    /\ disk = NoFile
    /\ store = LoadStore(disk)
    /\ last = Returned("load", "Ok", None, 0, 0, NoNames, 0)

Next ==
    \/ CreateArea
    \/ DeleteArea
    \/ RestoreArea
    \/ CreateProject
    \/ DeleteProject
    \/ RestoreProject
    \/ AddTask
    \/ CompleteTask
    \/ DeleteTask
    \/ RestoreTask
    \/ Load

Spec == Init /\ [][Next]_vars

\* ------------------------------------------------- stores loaded from a file
\* entities as a store file of the current version lists them
FileArea(id, name) == [ id |-> id, name |-> name, deleted_at |-> None ]
FileProject(id, name, area_id) ==
    [ id |-> id, name |-> name, area_id |-> area_id,
      completed_at |-> None, deleted_at |-> None ]
FileTask(id, title, project_id, area_id) ==
    [ id |-> id, task_number |-> id, title |-> title, project_id |-> project_id,
      area_id |-> area_id, deadline |-> None, completed_at |-> None, deleted_at |-> None ]

\* one area holding two projects of one task each
TwoProjectsFile ==
    [ version |-> CURRENT_VERSION, next_task_number |-> 3,
      areas |-> { FileArea(1, << "A", "b" >>) },
      projects |-> { FileProject(1, << "a" >>, 1), FileProject(2, << "A", "b" >>, 1) },
      tasks |-> { FileTask(1, << "a" >>, 1, None), FileTask(2, << "A", "b" >>, 2, None) } ]

\* one area holding a project with a task, and a task directly under the area
AreaWithDirectTaskFile ==
    [ version |-> CURRENT_VERSION, next_task_number |-> 3,
      areas |-> { FileArea(1, << "A", "b" >>) },
      projects |-> { FileProject(1, << "a" >>, 1) },
      tasks |-> { FileTask(1, << "a" >>, 1, None), FileTask(2, << "A", "b" >>, None, 1) } ]

\* one area, and a project outside it with two tasks, one naming the area
OutsideProjectFile ==
    [ version |-> CURRENT_VERSION, next_task_number |-> 3,
      areas |-> { FileArea(1, << "A", "b" >>) },
      projects |-> { FileProject(1, << "a" >>, None) },
      tasks |-> { FileTask(1, << "a" >>, 1, 1), FileTask(2, << "A", "b" >>, 1, None) } ]

\* two tasks whose titles are numbers: the first is titled with the number of
\* the second, the second with a number no task carries
NumberedTitlesFile ==
    [ version |-> CURRENT_VERSION, next_task_number |-> 3,
      areas |-> {},
      projects |-> {},
      tasks |-> { FileTask(1, << "2" >>, None, None), FileTask(2, << "3" >>, None, None) } ]

\* two areas, the name of one contained in the name of the other
TwoAreasFile ==
    [ version |-> CURRENT_VERSION, next_task_number |-> 1,
      areas |-> { FileArea(NilUuid, << "a" >>), FileArea(1, << "A", "b" >>) },
      projects |-> {},
      tasks |-> {} ]

StoreFiles ==
    { NoFile, TwoProjectsFile, AreaWithDirectTaskFile, OutsideProjectFile,
      NumberedTitlesFile, TwoAreasFile }

InitLoaded ==
    /\ disk \in StoreFiles
    /\ store = LoadStore(disk)
    /\ last = Returned("load", "Ok", None, 0, 0, NoNames, 0)

SpecLoaded == InitLoaded /\ [][Next]_vars

\* ------------------------------------------ files of every version on disk
\* the file with the number high * 2^32 + low under "version"
WithVersion(file, high, low) ==
    [ k \in (DOMAIN file) \cup (IF high = 0 THEN {} ELSE { "version_high" }) |->
        IF k = "version" THEN low ELSE IF k = "version_high" THEN high ELSE file[k] ]

\* a file of the first schema: no "version", no "next_task_number", the tasks
\* an array of objects without "task_number" and with their "created_at"
V1Task(id, title, created_at) ==
    [ id |-> id, title |-> title, project_id |-> None, area_id |-> None,
      deadline |-> None, completed_at |-> None, deleted_at |-> None,
      created_at |-> created_at ]

EmptyV1File == [ tasks |-> << >>, projects |-> << >>, areas |-> << >> ]

\* the later task listed first, and a third created with the first
V1TasksFile ==
    [ tasks |-> << V1Task(1, << "A", "b" >>, 2), V1Task(2, << "a" >>, 1),
                   V1Task(3, << "a" >>, 2) >>,
      projects |-> << >>, areas |-> << >> ]

\* versions written in the low word: 0, an older one, the current one, later
\* ones, and one that is no unsigned integer
LowVersions == { 0 - 1, 0, 1, 2, CURRENT_VERSION, CURRENT_VERSION + 1 }
\* high words: versions that fit in 32 bits and versions that do not
HighVersions == { 0, 1 }

\* a file with references to entities it does not hold: the project names an
\* area that is missing, the second task a project that is missing
DanglingReferencesFile ==
    [ version |-> CURRENT_VERSION, next_task_number |-> 3,
      areas |-> { FileArea(1, << "A", "b" >>) },
      projects |-> { FileProject(1, << "a" >>, NilUuid) },
      tasks |-> { FileTask(1, << "a" >>, 1, 1), FileTask(2, << "A", "b" >>, 2, 1) } ]

VersionFiles ==
    { NoFile, EmptyV1File, V1TasksFile, AreaWithDirectTaskFile, DanglingReferencesFile }
        \cup { WithVersion(TwoProjectsFile, high, low) :
                 high \in HighVersions, low \in LowVersions }

\* main before storage.load(): no store yet, nothing returned
Starting == Returned("main", "Starting", None, 0, 0, NoNames, 0)

InitFiles ==
    /\ disk \in VersionFiles
    /\ store = StoreDefault
    /\ last = Starting

SpecFiles == InitFiles /\ [][Next]_vars

\* ------------------------------------- saves and loads on the directory
\* In this specification disk is the directory of the store file, and last
\* carries the numbers of the saves that returned Ok and that returned an
\* error since the directory was empty.
MaxSaves == 7
MaxFailedSaves == 1
MaxBackupTime == 6

\* jiff::Timestamp::now() of get_backup_path
BackupTimes(dir) == 1..MaxBackupTime

DirectoryReturned(op, res, saves_ok, saves_failed) ==
    [ op |-> op, res |-> res, saves_ok |-> saves_ok, saves_failed |-> saves_failed ]

\* the store of the next save differs from every store saved before
ChangedStore(st) == [ st EXCEPT !.next_task_number = @ + 1 ]

SaveDirectory ==
    /\ last.saves_ok + last.saves_failed < MaxSaves
    /\ store' = ChangedStore(store)
    /\ \E now \in BackupTimes(disk) :
          \E saved \in save(disk, store', now) :
             /\ saved.res = "Ok" \/ last.saves_failed < MaxFailedSaves
             /\ disk' = saved.disk
             /\ last' = IF saved.res = "Ok"
                        THEN DirectoryReturned("save", "Ok", last.saves_ok + 1, last.saves_failed)
                        ELSE DirectoryReturned("save", saved.res, last.saves_ok,
                                               last.saves_failed + 1)

LoadDirectory ==
    /\ \E overflow_checks \in Builds :
          LET loaded == load(disk.file, overflow_checks)
          IN  /\ store' = IF loaded.res = "Ok" THEN loaded.store ELSE StoreDefault
              /\ last' = [ last EXCEPT !.op = "load", !.res = loaded.res ]
    /\ UNCHANGED disk

InitDirectory ==
    /\ disk = EmptyDirectory
    /\ store = StoreDefault
    /\ last = DirectoryReturned("main", "Starting", 0, 0)

NextDirectory ==
    \/ SaveDirectory
    \/ LoadDirectory

SpecDirectory == InitDirectory /\ [][NextDirectory]_vars

\* ------------------------------------ processes running side by side
\* In this specification every process is one invocation of the program on
\* the same store path: it loads the file, adds a task and saves, one step
\* of save at a time.  disk is the directory with the temporary files and
\* the holder of the lock on the lock file, store[p] the store in the memory
\* of process p, last[p] where p stands and what it returned.
MaxProcesses == 2
Processes == 1..MaxProcesses

\* no process holds the lock
Unlocked == 0

SharedDirectory(dir) ==
    [ file |-> dir.file, lock_file |-> dir.lock_file, backups_dir |-> dir.backups_dir,
      backups |-> dir.backups, temp_files |-> EmptyMap, locked_by |-> Unlocked ]

\* a store with one area, active or deleted at an instant
OneAreaStore(deleted_at) ==
    [ StoreDefault EXCEPT
        !.areas = MapInsert(EmptyMap, NilUuid,
                            [ id |-> NilUuid, name |-> << "a" >>, deleted_at |-> deleted_at ]) ]

\* the directory after create_area and then delete_area and restore_area in
\* turn, six saves in all: the five backups of the states the saves replaced
KeptBackupsDirectory ==
    Directory(to_stored(OneAreaStore(3)), TRUE, TRUE,
              [ e \in 2..6 |-> to_stored(OneAreaStore(CASE e = 3 -> 1 [] e = 5 -> 2
                                                             [] OTHER -> None)) ])

\* jiff::Timestamp::now() of get_backup_path: an instant before the names of
\* the backups kept, one of them, or an instant after them
ProcessBackupTimes == { 1, MaxBackupTime, MaxBackupTime + 1 }

\* a write that goes to the store file as well
write_temp_InPlace(dir, p, content) ==
    [ dir EXCEPT !.file = content, !.temp_files = MapInsert(@, p, content) ]

\* write(&temp_path, json): the file is created and then filled
write_temp(dir, p, content) == [ dir EXCEPT !.temp_files = MapInsert(@, p, content) ]

\* rename(&temp_path, &self.path)
rename_temp(dir, p) ==
    [ dir EXCEPT !.file = dir.temp_files[p],
                 !.temp_files = [ q \in (DOMAIN @) \ { p } |-> @[q] ] ]

\* a lock that is taken whether or not another process holds it
CanLock_Always(dir) == TRUE

\* a lock that is the absence of the lock file
CanLock_NoLockFile(dir) == ~ dir.lock_file

\* lock_exclusive() returns once no other open file holds the lock
CanLock(dir) == dir.locked_by = Unlocked

\* a lock that outlives the file handle
DropLockFile_Leaks(dir, p) == dir

\* lock_file goes out of scope when save returns, and the process's files
\* are closed when it dies: a lock held through that file is released
DropLockFile(dir, p) ==
    IF dir.locked_by = p THEN [ dir EXCEPT !.locked_by = Unlocked ] ELSE dir

\* lock_file.unlock()
unlock(dir, p) == [ dir EXCEPT !.locked_by = Unlocked ]

\* where a process stands: pc is the next step, res what it returned, number
\* the task_number it reports, at the step it stopped at
Standing(pc, res, number, at) == [ pc |-> pc, res |-> res, number |-> number, at |-> at ]

SaveSteps == { "write", "fill", "open_lock", "lock", "backup", "cleanup", "rename", "unlock" }

Goto(p, pc) == last' = [ last EXCEPT ![p].pc = pc ]

\* save returns the error and leaves the directory dir: main prints the
\* error and exits
FailLeaving(p, error, dir) ==
    /\ last' = [ last EXCEPT ![p] = Standing("exited", error, None, last[p].pc) ]
    /\ disk' = DropLockFile(dir, p)
    /\ UNCHANGED store

Fail(p, error) == FailLeaving(p, error, disk)

LoadFile(p) ==
    /\ last[p].pc = "load"
    /\ \E overflow_checks \in Builds :
          LET loaded == load(disk.file, overflow_checks)
          IN  IF loaded.res = "Ok"
              THEN /\ store' = [ store EXCEPT ![p] = loaded.store ]
                   /\ Goto(p, "add_task")
              ELSE /\ last' = [ last EXCEPT ![p] = Standing("exited", loaded.res, None, "load") ]
                   /\ UNCHANGED store
    /\ UNCHANGED disk

\* add_task up to store.add_task(task); the Uuid::new_v4() of process p is p
AddTaskInMemory(p) ==
    /\ last[p].pc = "add_task"
    /\ LET out == add_task(store[p], << "a" >>, NoString, NoString, NoString, p)
       IN  /\ store' = [ store EXCEPT ![p] = out.store ]
           /\ last' = [ last EXCEPT ![p] = Standing("write", "", out.store.tasks[p].task_number, "") ]
    /\ UNCHANGED disk

WriteTemp(p) ==
    /\ last[p].pc = "write"
    /\ disk' = write_temp(disk, p, Truncated(to_stored(store[p])))
    /\ Goto(p, "fill")
    /\ UNCHANGED store

FillTemp(p) ==
    /\ last[p].pc = "fill"
    /\ disk' = write_temp(disk, p, to_stored(store[p]))
    /\ Goto(p, "open_lock")
    /\ UNCHANGED store

OpenLockFile(p) ==
    /\ last[p].pc = "open_lock"
    /\ disk' = [ disk EXCEPT !.lock_file = TRUE ]
    /\ Goto(p, "lock")
    /\ UNCHANGED store

LockExclusive(p) ==
    /\ last[p].pc = "lock"
    /\ CanLock(disk)
    /\ disk' = [ disk EXCEPT !.locked_by = p ]
    /\ Goto(p, "backup")
    /\ UNCHANGED store

CreateBackup(p) ==
    /\ last[p].pc = "backup"
    /\ \E now \in ProcessBackupTimes : disk' = create_backup(disk, now)
    /\ Goto(p, "cleanup")
    /\ UNCHANGED store

CleanupOldBackups(p) ==
    /\ last[p].pc = "cleanup"
    /\ disk' = cleanup_old_backups(disk)
    /\ Goto(p, "rename")
    /\ UNCHANGED store

RenameTemp(p) ==
    /\ last[p].pc = "rename"
    /\ disk' = rename_temp(disk, p)
    /\ Goto(p, "unlock")
    /\ UNCHANGED store

\* unlock() and the return of Ok
UnlockAndReturn(p) ==
    /\ last[p].pc = "unlock"
    /\ disk' = DropLockFile(unlock(disk, p), p)
    /\ last' = [ last EXCEPT ![p] = Standing("done", "Ok", last[p].number, "unlock") ]
    /\ UNCHANGED store

\* the step the process stands at returns an error, and save returns it
FailStep(p) ==
    \/ /\ last[p].pc \in { "write", "fill", "open_lock", "lock", "rename", "unlock" }
       /\ Fail(p, "SaveFailed")
    \/ /\ last[p].pc = "backup"
       /\ \/ Fail(p, "BackupFailed")
          \/ /\ disk.file # NoFile
             /\ FailLeaving(p, "BackupFailed", [ disk EXCEPT !.backups_dir = TRUE ])
    \/ /\ last[p].pc = "cleanup"
       /\ \E n \in 0..number_of_files_to_delete(disk) :
             /\ n = 0 \/ n < number_of_files_to_delete(disk)
             /\ FailLeaving(p, "CleanupFailed",
                            RemoveEntries(disk, FirstEntries(DOMAIN disk.backups, n)))

\* the process is killed where it stands
Crash(p) ==
    /\ last[p].pc \in { "load", "add_task" } \cup SaveSteps
    /\ last' = [ last EXCEPT ![p] = Standing("crashed", "", None, last[p].pc) ]
    /\ disk' = DropLockFile(disk, p)
    /\ UNCHANGED store

Run(p) ==
    \/ LoadFile(p)
    \/ AddTaskInMemory(p)
    \/ WriteTemp(p)
    \/ FillTemp(p)
    \/ OpenLockFile(p)
    \/ LockExclusive(p)
    \/ CreateBackup(p)
    \/ CleanupOldBackups(p)
    \/ RenameTemp(p)
    \/ UnlockAndReturn(p)

InitProcesses ==
    /\ disk \in { SharedDirectory(EmptyDirectory), SharedDirectory(KeptBackupsDirectory) }
    /\ store = [ p \in Processes |-> StoreDefault ]
    /\ last = [ p \in Processes |-> Standing("load", "", None, "") ]

NextProcesses ==
    \/ \E p \in Processes : LoadFile(p)
    \/ \E p \in Processes : AddTaskInMemory(p)
    \/ \E p \in Processes : WriteTemp(p)
    \/ \E p \in Processes : FillTemp(p)
    \/ \E p \in Processes : OpenLockFile(p)
    \/ \E p \in Processes : LockExclusive(p)
    \/ \E p \in Processes : CreateBackup(p)
    \/ \E p \in Processes : CleanupOldBackups(p)
    \/ \E p \in Processes : RenameTemp(p)
    \/ \E p \in Processes : UnlockAndReturn(p)
    \/ \E p \in Processes : FailStep(p)
    \/ \E p \in Processes : Crash(p)

SpecProcesses == InitProcesses /\ [][NextProcesses]_vars

\* a process that is alive and whose next step can be taken eventually takes
\* it; failures and crashes may happen and need not
SpecProcessesFair == SpecProcesses /\ \A p \in Processes : WF_vars(Run(p))

TypeOK ==
    /\ store.next_task_number \in 1..(MaxTasks + 1)
    /\ DOMAIN store.tasks \subseteq TaskIds
    /\ DOMAIN store.projects \subseteq ProjectIds
    /\ DOMAIN store.areas \subseteq AreaIds
    /\ \A id \in DOMAIN store.tasks : store.tasks[id].id = id

\* =================================================================== claims
Succeeded(result, op) == result.op = op /\ result.res = "Ok"
\* the operation went as far as mutating the store (save may then have failed)
Mutating(result, op) == result.op = op /\ result.res \in { "Ok", "Storage" }

TaskNumbers(st) == { st.tasks[id].task_number : id \in DOMAIN st.tasks }

\* C1: from an empty store the task numbers handed out are 1, 2, 3, ... in
\* creation order: the tasks of the store carry exactly the numbers below
\* next_task_number, one task per number (a deleted task keeps its number, so
\* none is reused), and every add_task gives the new task the number that
\* follows all the numbers given before.
TaskNumbersSequential ==
    /\ [](/\ TaskNumbers(store) = 1..(store.next_task_number - 1)
          /\ Cardinality(DOMAIN store.tasks) = store.next_task_number - 1)
    /\ [][ Mutating(last', "add_task") =>
             \E new \in DOMAIN store'.tasks :
                /\ DOMAIN store'.tasks = DOMAIN store.tasks \cup { new }
                /\ new \notin DOMAIN store.tasks
                /\ store'.tasks[new].task_number = Cardinality(DOMAIN store.tasks) + 1
                /\ \A old \in DOMAIN store.tasks :
                      /\ store'.tasks[old].task_number = store.tasks[old].task_number
                      /\ store.tasks[old].task_number < store'.tasks[new].task_number ]_vars

\* a second task was added after the first was deleted
TaskNumbersSequentialWitness ==
    /\ Succeeded(last, "add_task")
    /\ store.tasks[last.id].task_number = 2
    /\ \E id \in DOMAIN store.tasks :
          store.tasks[id].task_number = 1 /\ store.tasks[id].deleted_at # None

\* C2: next_task_number never decreases: add_task raises it by exactly one, and
\* every other lifecycle operation, and every operation that returns a
\* resolution or validation error, leaves it as it was.
CounterOnlyAdvancedByAddTask ==
    [][ last'.op # "load" =>
          store'.next_task_number =
              IF Mutating(last', "add_task") THEN store.next_task_number + 1
              ELSE store.next_task_number ]_vars

\* two tasks were added, one was deleted and restored: the counter is still 3
CounterOnlyAdvancedByAddTaskWitness ==
    /\ Succeeded(last, "restore_task")
    /\ store.next_task_number = 3

\* C3: every successful create_area adds one area under an identity no area
\* of the store carried before: the areas grow by one and the areas that were
\* there are still there, unchanged.
CreateAreaAddsFreshArea ==
    [][ Succeeded(last', "create_area") =>
          /\ last'.id \notin DOMAIN store.areas
          /\ Cardinality(DOMAIN store'.areas) = Cardinality(DOMAIN store.areas) + 1
          /\ \A a \in DOMAIN store.areas :
                a \in DOMAIN store'.areas /\ store'.areas[a] = store.areas[a] ]_vars

\* C4: every successful add_task and create_project adds exactly one entity,
\* under an identity the store did not hold, and leaves every task, project
\* and area that was there unchanged.
AddTaskCreateProjectAddFresh ==
    [][ /\ Succeeded(last', "add_task") =>
             /\ last'.id \notin DOMAIN store.tasks
             /\ DOMAIN store'.tasks = DOMAIN store.tasks \cup { last'.id }
             /\ \A t \in DOMAIN store.tasks : store'.tasks[t] = store.tasks[t]
             /\ store'.projects = store.projects
             /\ store'.areas = store.areas
        /\ Succeeded(last', "create_project") =>
             /\ last'.id \notin DOMAIN store.projects
             /\ DOMAIN store'.projects = DOMAIN store.projects \cup { last'.id }
             /\ \A q \in DOMAIN store.projects : store'.projects[q] = store.projects[q]
             /\ store'.tasks = store.tasks
             /\ store'.areas = store.areas ]_vars

\* a project was created next to one that was there, and a task next to one
AddTaskCreateProjectAddFreshWitness ==
    \/ Succeeded(last, "create_project") /\ Cardinality(DOMAIN store.projects) = 2
    \/ Succeeded(last, "add_task") /\ Cardinality(DOMAIN store.tasks) = 2

\* C5: there is no hard deletion: complete_task, delete_task, restore_task,
\* delete_project, delete_area, restore_project and restore_area remove no
\* entity and change no task's id or task_number; the identities of the
\* tasks, projects and areas are the same after the call as before.
SoftOperations ==
    { "complete_task", "delete_task", "restore_task", "delete_project",
      "delete_area", "restore_project", "restore_area" }

NoHardDeletion ==
    [][ last'.op \in SoftOperations =>
          /\ DOMAIN store'.tasks = DOMAIN store.tasks
          /\ DOMAIN store'.projects = DOMAIN store.projects
          /\ DOMAIN store'.areas = DOMAIN store.areas
          /\ \A t \in DOMAIN store.tasks :
                /\ store'.tasks[t].id = store.tasks[t].id
                /\ store'.tasks[t].task_number = store.tasks[t].task_number ]_vars

\* a project was deleted together with its task
NoHardDeletionWitness ==
    /\ Succeeded(last, "delete_project")
    /\ last.cascaded_tasks_count = 1
    /\ \E t \in DOMAIN store.tasks :
          store.tasks[t].project_id = last.id /\ store.tasks[t].deleted_at # None

Deleted(entity) == entity.deleted_at # None
Active(entity) == entity.deleted_at = None

\* the entities of map whose deleted_at went from absent to present
NewlyDeleted(before, after) ==
    { id \in DOMAIN before : Active(before[id]) /\ Deleted(after[id]) }

\* C6 as stated: after a successful delete_area on area A, A is deleted, every
\* project whose area_id is A is deleted, every task whose project_id is one
\* of those projects is deleted, and every task with area_id A and no project
\* is deleted.
DeleteAreaDeletesAllBelow ==
    Succeeded(last, "delete_area") =>
        /\ Deleted(store.areas[last.id])
        /\ \A p \in DOMAIN store.projects :
              store.projects[p].area_id = last.id =>
                 /\ Deleted(store.projects[p])
                 /\ \A t \in DOMAIN store.tasks :
                       store.tasks[t].project_id = p => Deleted(store.tasks[t])
        /\ \A t \in DOMAIN store.tasks :
              store.tasks[t].area_id = last.id /\ store.tasks[t].project_id = None
                 => Deleted(store.tasks[t])

\* C6 amended: after a successful delete_area on area A, A is deleted, every
\* project whose area_id is A is deleted, every task whose project_id is one
\* of those projects that was active when the call was made is deleted, and
\* every task with area_id A and no project is deleted.
DeleteAreaDeletesBelowActiveProjects ==
    [][ Succeeded(last', "delete_area") =>
          /\ Active(store.areas[last'.id])
          /\ Deleted(store'.areas[last'.id])
          /\ \A p \in DOMAIN store.projects :
                store.projects[p].area_id = last'.id =>
                   /\ Deleted(store'.projects[p])
                   /\ Active(store.projects[p]) =>
                         \A t \in DOMAIN store.tasks :
                            store.tasks[t].project_id = p => Deleted(store'.tasks[t])
          /\ \A t \in DOMAIN store.tasks :
                store.tasks[t].area_id = last'.id /\ store.tasks[t].project_id = None
                   => Deleted(store'.tasks[t]) ]_vars

\* an area was deleted with a project, a task of that project and a task
\* directly under the area
DeleteAreaDeletesBelowActiveProjectsWitness ==
    /\ Succeeded(last, "delete_area")
    /\ last.cascaded_projects_count >= 1
    /\ \E t \in DOMAIN store.tasks :
          /\ store.tasks[t].project_id # None
          /\ store.projects[store.tasks[t].project_id].area_id = last.id
          /\ store.tasks[t].deleted_at = store.areas[last.id].deleted_at
    /\ \E t \in DOMAIN store.tasks :
          /\ store.tasks[t].project_id = None
          /\ store.tasks[t].area_id = last.id
          /\ store.tasks[t].deleted_at = store.areas[last.id].deleted_at

\* C7: after a successful delete_project on project P, P is deleted, every
\* task whose project_id is P is deleted, and cascaded_tasks_count is the
\* number of tasks of P that were active just before the call.
DeleteProjectCascades ==
    [][ Succeeded(last', "delete_project") =>
          /\ Active(store.projects[last'.id])
          /\ Deleted(store'.projects[last'.id])
          /\ \A t \in DOMAIN store.tasks :
                store.tasks[t].project_id = last'.id => Deleted(store'.tasks[t])
          /\ last'.cascaded_tasks_count =
                Cardinality({ t \in DOMAIN store.tasks :
                                /\ store.tasks[t].project_id = last'.id
                                /\ Active(store.tasks[t]) }) ]_vars

\* a project was deleted that held a task deleted earlier and an active one
DeleteProjectCascadesWitness ==
    /\ Succeeded(last, "delete_project")
    /\ last.cascaded_tasks_count = 1
    /\ Cardinality({ t \in DOMAIN store.tasks : store.tasks[t].project_id = last.id }) = 2

\* C8: the entities whose deleted_at one delete_area or one delete_project
\* call sets (the area, its cascaded projects, its cascaded tasks; the project
\* and its cascaded tasks) all receive one and the same timestamp.
StampsOf(before, after) ==
    { after[id].deleted_at : id \in { x \in DOMAIN before :
                                        after[x].deleted_at # before[x].deleted_at } }

SharedDeletionTimestamp ==
    [][ Mutating(last', "delete_area") \/ Mutating(last', "delete_project") =>
          \E now \in Times :
             StampsOf(store.tasks, store'.tasks)
                \cup StampsOf(store.projects, store'.projects)
                \cup StampsOf(store.areas, store'.areas) = { now } ]_vars

\* an area was deleted together with a project and a task, while another
\* entity carries a different timestamp from an earlier deletion
SharedDeletionTimestampWitness ==
    /\ Succeeded(last, "delete_area")
    /\ last.cascaded_projects_count >= 1
    /\ last.cascaded_tasks_count >= 1
    /\ \E t \in DOMAIN store.tasks :
          /\ Deleted(store.tasks[t])
          /\ store.tasks[t].deleted_at # store.areas[last.id].deleted_at

\* C9: the counts delete_area returns are what changed: cascaded_projects_count
\* is the number of projects, cascaded_tasks_count the number of tasks, whose
\* deleted_at went from absent to present in the call; with two active
\* projects of one active task each, one area, two projects and two tasks
\* are deleted.
DeleteAreaCountsWhatChanged ==
    [][ Succeeded(last', "delete_area") =>
          /\ last'.cascaded_projects_count =
                Cardinality(NewlyDeleted(store.projects, store'.projects))
          /\ last'.cascaded_tasks_count =
                Cardinality(NewlyDeleted(store.tasks, store'.tasks))
          /\ LET projects_of_area ==
                     { p \in DOMAIN store.projects :
                         store.projects[p].area_id = last'.id /\ Active(store.projects[p]) }
                 active_tasks_of(p) ==
                     { t \in DOMAIN store.tasks :
                         store.tasks[t].project_id = p /\ Active(store.tasks[t]) }
                 direct_tasks == get_tasks_for_area(store, last'.id) \cap get_active_tasks(store)
             IN  ( /\ Cardinality(projects_of_area) = 2
                   /\ \A p \in projects_of_area : Cardinality(active_tasks_of(p)) = 1
                   /\ direct_tasks = {} )
                 => /\ NewlyDeleted(store.areas, store'.areas) = { last'.id }
                    /\ last'.cascaded_projects_count = 2
                    /\ last'.cascaded_tasks_count = 2 ]_vars

\* the area of two projects of one task each was deleted
DeleteAreaCountsWhatChangedWitness ==
    /\ Succeeded(last, "delete_area")
    /\ last.cascaded_projects_count = 2
    /\ last.cascaded_tasks_count = 2

\* C10: restore never cascades: a successful restore_area or restore_project
\* clears the deleted_at of the area or project it resolved and of nothing
\* else; every other entity, the projects and tasks deleted by the earlier
\* cascade among them, is unchanged and still deleted.
OnlyRestored(before, after, id) ==
    /\ DOMAIN after = DOMAIN before
    /\ Deleted(before[id])
    /\ after[id] = [ before[id] EXCEPT !.deleted_at = None ]
    /\ \A other \in DOMAIN before \ { id } : after[other] = before[other]

RestoreNeverCascades ==
    [][ /\ Succeeded(last', "restore_area") =>
             /\ OnlyRestored(store.areas, store'.areas, last'.id)
             /\ store'.projects = store.projects
             /\ store'.tasks = store.tasks
        /\ Succeeded(last', "restore_project") =>
             /\ OnlyRestored(store.projects, store'.projects, last'.id)
             /\ store'.areas = store.areas
             /\ store'.tasks = store.tasks ]_vars

\* an area was restored whose project and that project's task, deleted with
\* it, are still deleted
RestoreNeverCascadesWitness ==
    /\ Succeeded(last, "restore_area")
    /\ \E p \in DOMAIN store.projects :
          /\ store.projects[p].area_id = last.id
          /\ Deleted(store.projects[p])
          /\ \E t \in DOMAIN store.tasks :
                store.tasks[t].project_id = p /\ Deleted(store.tasks[t])

\* the store that create_area, create_project and add_task with the project's
\* name build from the empty store: one area, one project and one task of
\* that project, all active
ScenarioStore(st, a, p, t) ==
    /\ DOMAIN st.areas = { a } /\ Active(st.areas[a])
    /\ DOMAIN st.projects = { p } /\ Active(st.projects[p])
    /\ DOMAIN st.tasks = { t } /\ Active(st.tasks[t])
    /\ st.tasks[t].project_id = p
    /\ st.tasks[t].area_id = None

\* C11: using only the lifecycle operations, after creating an area, creating
\* a project in it and adding a task with that project, the task's display
\* context is "<area> / <project>", and delete_area of the area reports
\* cascaded_projects_count = 1 and cascaded_tasks_count = 1.
WorkLaunchScenario ==
    [][ \A a \in DOMAIN store.areas, p \in DOMAIN store.projects, t \in DOMAIN store.tasks :
          ( ScenarioStore(store, a, p, t) /\ Succeeded(last', "delete_area") ) =>
             /\ get_task_context(store.tasks[t], store)
                   = SomeString(AreaSlashProject(store.areas[a].name, store.projects[p].name))
             /\ last'.cascaded_projects_count = 1
             /\ last'.cascaded_tasks_count = 1 ]_vars

\* C12: whenever a lifecycle operation returns a resolution or validation
\* error, the in-memory store, next_task_number included, is what it was
\* before the call, and Storage::save was not invoked (the file is as it was).
ResolutionErrors ==
    { "ProjectNotFound", "AreaNotFound", "TaskNotFound", "AmbiguousProjectName",
      "AmbiguousAreaName", "AmbiguousTaskName", "TaskAlreadyDeleted",
      "TaskNotDeleted", "InvalidDeadline" }

RejectionLeavesStore ==
    [][ last'.res \in ResolutionErrors =>
          /\ store' = store
          /\ last'.saves = 0
          /\ disk' = disk ]_vars

\* add_task was given a deadline that is no date, on a store holding a task
RejectionLeavesStoreWitness ==
    /\ last.op = "add_task"
    /\ last.res = "InvalidDeadline"
    /\ store.next_task_number = 2

LifecycleOperations ==
    { "create_area", "delete_area", "restore_area", "create_project",
      "delete_project", "restore_project", "add_task", "complete_task",
      "delete_task", "restore_task" }

\* C13: each lifecycle operation is atomic for its caller: whenever it
\* returns any error, a storage error from save included, both the in-memory
\* store and the file on disk are exactly what they were before the call.
ErrorLeavesStoreAndFile ==
    [][ ( last'.op \in LifecycleOperations /\ last'.res # "Ok" ) =>
          /\ store' = store
          /\ disk' = disk ]_vars

\* the entities of map whose deleted_at went from present to absent
NewlyRestored(before, after) ==
    { id \in DOMAIN before : Deleted(before[id]) /\ Active(after[id]) }

\* C14: when Storage::save fails inside a lifecycle operation, the operation
\* returns the storage error and the mutation it made in memory is kept, not
\* rolled back: the new entity stays in the store (a new task with
\* next_task_number advanced), the deleted_at or completed_at it set stays
\* set, the deleted_at it cleared stays cleared.
StorageErrorKeepsMutation ==
    [][ last'.res = "Storage" =>
          /\ last'.saves = 1
          /\ last'.op = "add_task" =>
                /\ \E new \in DOMAIN store'.tasks :
                      /\ new \notin DOMAIN store.tasks
                      /\ store'.tasks[new].task_number = store.next_task_number
                /\ store'.next_task_number = store.next_task_number + 1
          /\ last'.op = "create_project" =>
                Cardinality(DOMAIN store'.projects) = Cardinality(DOMAIN store.projects) + 1
          /\ last'.op = "create_area" =>
                \E a \in DOMAIN store'.areas : Active(store'.areas[a])
          /\ last'.op = "complete_task" =>
                \E t \in DOMAIN store.tasks :
                   /\ store'.tasks[t].completed_at \in Times
                   /\ \A other \in DOMAIN store.tasks \ { t } :
                         store'.tasks[other] = store.tasks[other]
          /\ last'.op = "delete_task" =>
                Cardinality(NewlyDeleted(store.tasks, store'.tasks)) = 1
          /\ last'.op = "delete_project" =>
                Cardinality(NewlyDeleted(store.projects, store'.projects)) = 1
          /\ last'.op = "delete_area" =>
                Cardinality(NewlyDeleted(store.areas, store'.areas)) = 1
          /\ last'.op = "restore_task" =>
                Cardinality(NewlyRestored(store.tasks, store'.tasks)) = 1
          /\ last'.op = "restore_project" =>
                Cardinality(NewlyRestored(store.projects, store'.projects)) = 1
          /\ last'.op = "restore_area" =>
                Cardinality(NewlyRestored(store.areas, store'.areas)) = 1 ]_vars

\* add_task returned a storage error: the task is in the store and the file
\* on disk does not hold it
StorageErrorKeepsMutationWitness ==
    /\ last.op = "add_task"
    /\ last.res = "Storage"
    /\ store.next_task_number = 2
    /\ disk # to_stored(store)

\* C15: in every lifecycle operation the order is validate, mutate, save,
\* return: save is called at most once, never by an operation that returned a
\* resolution or validation error, and exactly once by an operation that
\* returned success; the store handed to save holds the whole mutation, the
\* stamped children of a cascade included, so after every success the file is
\* the serialized in-memory store.
SaveAfterMutationBeforeSuccess ==
    /\ last.saves \in { 0, 1 }
    /\ last.saves = 1 => last.res \in { "Ok", "Storage" }
    /\ ( last.op \in LifecycleOperations /\ last.res = "Ok" ) =>
          /\ last.saves = 1
          /\ disk = to_stored(store)

\* a project was deleted together with two tasks, and the file holds all
\* three stamps
SaveAfterMutationBeforeSuccessWitness ==
    /\ Succeeded(last, "delete_project")
    /\ last.cascaded_tasks_count = 2
    /\ disk # NoFile
    /\ \A t \in disk.tasks : t.deleted_at # None

\* C16: complete_task changes a task only if that task was active and not yet
\* completed just before the call; an identifier, numeric or title, that
\* designates a completed or a deleted task gets TaskNotFound and the store is
\* unchanged, so completed_at is never stamped again.
CompleteTaskOnlyActiveIncomplete ==
    [][ last'.op = "complete_task" =>
          /\ \A t \in DOMAIN store.tasks :
                store'.tasks[t] # store.tasks[t] =>
                   Active(store.tasks[t]) /\ store.tasks[t].completed_at = None
          /\ Succeeded(last', "complete_task") =>
                /\ Active(store.tasks[last'.id])
                /\ store.tasks[last'.id].completed_at = None ]_vars

\* C17: in complete_task and delete_task an identifier that parses as an
\* unsigned integer is resolved by exact task_number only: the task that
\* carries the number is the one selected, also when the titles of other
\* active tasks contain the same digits, and when no task carries the number
\* the result is TaskNotFound, without a second try on the titles.
NumericIdentifierByNumberOnly ==
    \A identifier \in NumberQueries, now \in Times :
       \A by_number \in NumberLookups(store, identifier) :
          LET carriers == { t \in DOMAIN store.tasks :
                              store.tasks[t].task_number = ParseU64(identifier) }
              completed == complete_task(store, identifier, now, by_number)
              deleted == delete_task(store, identifier, now, by_number)
              OnlyCarriers(out) ==
                  \A t \in DOMAIN store.tasks \ carriers : out.store.tasks[t] = store.tasks[t]
          IN  IF carriers = {}
              THEN /\ completed = Rejected("TaskNotFound", store)
                   /\ deleted = Rejected("TaskNotFound", store)
              ELSE /\ completed.res = "Ok" /\ completed.id \in carriers
                   /\ deleted.res \in { "Ok", "TaskAlreadyDeleted" }
                   /\ deleted.res = "Ok" => deleted.id \in carriers
                   /\ OnlyCarriers(completed) /\ OnlyCarriers(deleted)

\* the identifier "2" completed task number 2 while the title of task
\* number 1, active and not completed, is "2"
NumericIdentifierByNumberOnlyWitness ==
    /\ Succeeded(last, "complete_task")
    /\ store.tasks[last.id].task_number = 2
    /\ store.tasks[last.id].title = << "3" >>
    /\ \E t \in DOMAIN store.tasks :
          /\ store.tasks[t].title = << "2" >>
          /\ Active(store.tasks[t])
          /\ store.tasks[t].completed_at = None

\* the entities of map, among pool, whose name matches the query
Candidates(m, pool, query) == { id \in pool : FuzzyMatch(m[id].name, query) }
TaskCandidates(m, pool, query) == { id \in pool : FuzzyMatch(m[id].title, query) }

\* the operation failed and modified nothing (an operation that fails before
\* it writes the store does not reach its call of save)
FailedUnchanged(out, st) == out.res \notin { "Ok", "Storage" } /\ out.store = st

\* C18: the resolver never guesses: in every operation that takes a fuzzy
\* name (add_task for its project and its area, complete_task, delete_task,
\* delete_project, delete_area, restore_project, restore_area), when the
\* query matches two or more candidates of the pool searched, the operation
\* fails, no entity is modified and save is not invoked.
ResolverNeverGuesses ==
    \A query \in NameQueries, now \in Times :
       /\ Cardinality(Candidates(store.projects, get_active_projects(store), query)) >= 2 =>
             /\ FailedUnchanged(delete_project(store, query, now), store)
             /\ \A title \in Names, area \in OptionalQueries, deadline \in DeadlineInputs,
                   id \in TaskIds :
                   FailedUnchanged(add_task(store, title, SomeString(query), area, deadline, id),
                                   store)
       /\ Cardinality(Candidates(store.areas, get_active_areas(store), query)) >= 2 =>
             /\ FailedUnchanged(delete_area(store, query, now), store)
             /\ \A title \in Names, project \in OptionalQueries, deadline \in DeadlineInputs,
                   id \in TaskIds :
                   FailedUnchanged(add_task(store, title, project, SomeString(query), deadline, id),
                                   store)
       /\ Cardinality(Candidates(store.projects, get_deleted_projects(store), query)) >= 2 =>
             FailedUnchanged(restore_project(store, query), store)
       /\ Cardinality(Candidates(store.areas, get_deleted_areas(store), query)) >= 2 =>
             FailedUnchanged(restore_area(store, query), store)
       /\ Cardinality(TaskCandidates(store.tasks, get_active_tasks(store), query)) >= 2 =>
             FailedUnchanged(delete_task(store, query, now, None), store)
       /\ Cardinality(TaskCandidates(store.tasks,
              { t \in get_active_tasks(store) : store.tasks[t].completed_at = None },
              query)) >= 2 =>
             FailedUnchanged(complete_task(store, query, now, None), store)
       /\ last.res \in { "AmbiguousProjectName", "AmbiguousAreaName", "AmbiguousTaskName" } =>
             last.saves = 0

\* both areas of the store are deleted and contain the query of a
\* restore_area that failed
ResolverNeverGuessesWitness ==
    /\ last.op = "restore_area"
    /\ last.res = "AreaNotFound"
    /\ Cardinality(Candidates(store.areas, get_deleted_areas(store), << "a" >>)) = 2

\* the error carries each name as often as candidates bear it, and no other
CarriesNamesOf(out, name_of) ==
    /\ DOMAIN out.names = { name_of[id] : id \in DOMAIN name_of }
    /\ \A n \in DOMAIN out.names :
          out.names[n] = Cardinality({ id \in DOMAIN name_of : name_of[id] = n })

\* C19: when a fuzzy project name given to delete_project or add_task matches
\* two or more active projects, the operation returns AmbiguousProjectName
\* with exactly the names of the matching projects, each as it is stored, none
\* missing and none added, and mutates nothing; complete_task and delete_task
\* do the same for titles with AmbiguousTaskName.
AmbiguityListsAllMatches ==
    \A query \in NameQueries, now \in Times :
       LET projects == Candidates(store.projects, get_active_projects(store), query)
           project_names == [ p \in projects |-> store.projects[p].name ]
           deletable == TaskCandidates(store.tasks, get_active_tasks(store), query)
           completable == { t \in deletable : store.tasks[t].completed_at = None }
           Reports(out, error, name_of) ==
               /\ out.res = error
               /\ out.store = store
               /\ CarriesNamesOf(out, name_of)
       IN  /\ Cardinality(projects) >= 2 =>
                 /\ Reports(delete_project(store, query, now),
                            "AmbiguousProjectName", project_names)
                 /\ \A title \in Names, area \in OptionalQueries,
                       deadline \in DeadlineInputs, id \in TaskIds :
                       Reports(add_task(store, title, SomeString(query), area, deadline, id),
                               "AmbiguousProjectName", project_names)
           /\ Cardinality(deletable) >= 2 =>
                 Reports(delete_task(store, query, now, None), "AmbiguousTaskName",
                         [ t \in deletable |-> store.tasks[t].title ])
           /\ Cardinality(completable) >= 2 =>
                 Reports(complete_task(store, query, now, None), "AmbiguousTaskName",
                         [ t \in completable |-> store.tasks[t].title ])

\* delete_project was refused with the names "a" and "Ab" of the two projects
\* that contain its query
AmbiguityListsAllMatchesWitness ==
    /\ last.op = "delete_project"
    /\ last.res = "AmbiguousProjectName"
    /\ DOMAIN last.names = Names
    /\ Cardinality(get_active_projects(store)) = 2

\* C20: delete_task on a task that is already deleted returns
\* TaskAlreadyDeleted, restore_task on a task that is not deleted returns
\* TaskNotDeleted, restore_task on a number no task carries returns
\* TaskNotFound, and in the three cases the store is unchanged; otherwise
\* delete_task sets, and restore_task clears, the deleted_at of exactly that
\* task.
TaskDeleteRestorePreconditions ==
    \A task_number \in 1..(MaxTasks + 1), now \in Times :
       \A by_number \in NumberLookups(store, NumberString(task_number)) :
          LET carriers == { t \in DOMAIN store.tasks :
                              store.tasks[t].task_number = task_number }
              deleted == delete_task(store, NumberString(task_number), now, by_number)
              restored == restore_task(store, by_number)
              Stamped(stamp) == [ store EXCEPT !.tasks[by_number].deleted_at = stamp ]
          IN  IF carriers = {}
              THEN restored = Rejected("TaskNotFound", store)
              ELSE /\ by_number \in carriers
                   /\ IF Deleted(store.tasks[by_number])
                      THEN /\ deleted = Rejected("TaskAlreadyDeleted", store)
                           /\ restored = Mutated(Stamped(None), by_number)
                      ELSE /\ restored = Rejected("TaskNotDeleted", store)
                           /\ deleted = Mutated(Stamped(now), by_number)

\* delete_task was refused for a task deleted before, which keeps the
\* timestamp of its deletion
TaskDeleteRestorePreconditionsWitness ==
    /\ last.op = "delete_task"
    /\ last.res = "TaskAlreadyDeleted"
    /\ \E t \in DOMAIN store.tasks : Deleted(store.tasks[t])

\* C21: completed_at and deleted_at are independent: delete_task,
\* restore_task, delete_project, delete_area, restore_project and restore_area
\* never change the completed_at of any task, and complete_task never changes
\* the deleted_at of any task; a completed task that is deleted and restored
\* is still completed, with the completed_at it had.
DeletionOperations ==
    { "delete_task", "restore_task", "delete_project", "delete_area",
      "restore_project", "restore_area" }

CompletionIndependentOfDeletion ==
    [][ /\ last'.op \in DeletionOperations =>
             \A t \in DOMAIN store.tasks :
                store'.tasks[t].completed_at = store.tasks[t].completed_at
        /\ last'.op = "complete_task" =>
             \A t \in DOMAIN store.tasks :
                store'.tasks[t].deleted_at = store.tasks[t].deleted_at ]_vars

\* a completed task was deleted and then restored
CompletionIndependentOfDeletionWitness ==
    /\ Succeeded(last, "restore_task")
    /\ store.tasks[last.id].completed_at # None
    /\ Active(store.tasks[last.id])

\* C22: in every reachable store the active and the deleted queries
\* partition each kind of entity: get_active_* returns exactly the entities
\* without deleted_at and get_deleted_* exactly those with it; a deleted
\* entity is still returned by get_task / get_project / get_area under its
\* identity, and a deleted task by get_task_by_number under the number it had
\* before it was deleted.
Partitions(all, active, deleted) ==
    /\ active \cup deleted = all
    /\ active \cap deleted = {}

ActiveDeletedPartition ==
    /\ [](/\ Partitions(DOMAIN store.tasks, get_active_tasks(store), get_deleted_tasks(store))
          /\ Partitions(DOMAIN store.projects, get_active_projects(store),
                        get_deleted_projects(store))
          /\ Partitions(DOMAIN store.areas, get_active_areas(store), get_deleted_areas(store))
          /\ \A t \in DOMAIN store.tasks :
                /\ t \in get_active_tasks(store) <=> store.tasks[t].deleted_at = None
                /\ get_task(store, t) # << >> /\ get_task(store, t)[1].id = t
          /\ \A p \in DOMAIN store.projects :
                /\ p \in get_active_projects(store) <=> store.projects[p].deleted_at = None
                /\ get_project(store, p) # << >> /\ get_project(store, p)[1].id = p
          /\ \A a \in DOMAIN store.areas :
                /\ a \in get_active_areas(store) <=> store.areas[a].deleted_at = None
                /\ get_area(store, a) # << >> /\ get_area(store, a)[1].id = a)
    /\ [][ last'.op \in LifecycleOperations =>
             \A t \in NewlyDeleted(store.tasks, store'.tasks) :
                /\ t \in get_deleted_tasks(store') /\ t \notin get_active_tasks(store')
                /\ get_task(store', t) = << [ store.tasks[t] EXCEPT
                                                !.deleted_at = store'.tasks[t].deleted_at ] >>
                /\ get_task_by_number(store', store.tasks[t].task_number) = { t } ]_vars

\* the store holds a deleted task next to an active one, and a deleted project
ActiveDeletedPartitionWitness ==
    /\ get_deleted_tasks(store) # {}
    /\ get_active_tasks(store) # {}
    /\ get_deleted_projects(store) # {}
    /\ Succeeded(last, "delete_task")

\* C23: add_task resolves the names of its project and its area in the active
\* pool only: a new task is never attached to a deleted project or area, a
\* name that matches deleted entities only yields ProjectNotFound /
\* AreaNotFound, and a deleted entity never makes a match that is unique
\* among the active ones ambiguous.  Stated of the add_task of
\* services/tasks.rs and of the add_task of services/add.rs.
ResolvesAmongActive(out, st, project, area) ==
    LET projects == IF project = NoString THEN {}
                    ELSE Candidates(st.projects, get_active_projects(st), project[1])
        areas == IF area = NoString THEN {}
                 ELSE Candidates(st.areas, get_active_areas(st), area[1])
        project_resolves == project = NoString \/ Cardinality(projects) = 1
    IN  /\ out.res = "Ok" =>
              /\ out.store.tasks[out.id].project_id \in { None } \cup get_active_projects(st)
              /\ out.store.tasks[out.id].area_id \in { None } \cup get_active_areas(st)
        /\ ( project # NoString /\ projects = {} ) => out.res = "ProjectNotFound"
        /\ Cardinality(projects) = 1 => out.res # "AmbiguousProjectName"
        /\ ( project_resolves /\ area # NoString /\ areas = {} ) => out.res = "AreaNotFound"
        /\ ( project_resolves /\ Cardinality(areas) = 1 ) => out.res # "AmbiguousAreaName"

SameEntities(before, after) ==
    /\ DOMAIN after = DOMAIN before
    /\ \A id \in DOMAIN before : after[id] = before[id]

RoundTrips(st, file) ==
    \A saved \in SaveOutcomes(st, file), overflow_checks \in Builds :
       saved.res = "Ok" =>
          LET loaded == load(saved.disk, overflow_checks)
          IN  /\ loaded.res = "Ok"
              /\ SameEntities(st.tasks, loaded.store.tasks)
              /\ SameEntities(st.projects, loaded.store.projects)
              /\ SameEntities(st.areas, loaded.store.areas)
              /\ \A t \in DOMAIN st.tasks :
                    loaded.store.tasks[t].task_number = st.tasks[t].task_number
              /\ loaded.store.next_task_number = st.next_task_number

SaveLoadRoundTrip == RoundTrips(store, disk)

\* a save has just written a store that holds a deleted task next to an
\* active one, and load returns that store from the file
SaveLoadRoundTripWitness ==
    /\ Running
    /\ last.saves = 1
    /\ get_deleted_tasks(store) # {}
    /\ get_active_tasks(store) # {}
    /\ store.areas # EmptyMap
    /\ \A overflow_checks \in Builds :
          load(disk, overflow_checks) = LoadResult("Ok", store, None)

\* C26: load of a file whose version is an integer greater than
\* CURRENT_VERSION, whether or not it fits in 32 bits, fails with
\* FutureVersion and returns no store.
ExceedsCurrentVersion(file) ==
    /\ "version" \in DOMAIN file
    /\ file.version >= 0
    /\ VersionHigh(file) > 0 \/ file.version > CURRENT_VERSION

FutureVersionAlwaysFails ==
    ( last.op = "load" /\ ExceedsCurrentVersion(disk) )
        => ( last.res = "FutureVersion" /\ ~ Running )

\* C27: load of a file without a version field succeeds, the file taken as
\* version 1 and migrated to the current version: the store has the version
\* CURRENT_VERSION, and next_task_number 1 when the file has no tasks.
HasNoVersion(file) == file # NoFile /\ "version" \notin DOMAIN file

UnversionedFileLoads ==
    ( last.op = "load" /\ HasNoVersion(disk) )
        => /\ last.res = "Ok"
           /\ store.version = CURRENT_VERSION
           /\ disk.tasks = << >> => store.next_task_number = 1

\* C28: the migration of a version-1 document gives every task a
\* task_number, 1..n in ascending created_at order, ties in the order of the
\* array, and sets next_task_number to one past the highest number given.
Precedes(tasks, i, j) ==
    \/ tasks[i].created_at < tasks[j].created_at
    \/ tasks[i].created_at = tasks[j].created_at /\ i < j

BackfilledNumber(tasks, j) ==
    1 + Cardinality({ i \in DOMAIN tasks : Precedes(tasks, i, j) })

V1MigrationBackfillsNumbers ==
    ( last.op = "load" /\ HasNoVersion(disk) /\ disk.tasks # << >> )
        => /\ last.res = "Ok"
           /\ DOMAIN store.tasks = { disk.tasks[j].id : j \in DOMAIN disk.tasks }
           /\ \A j \in DOMAIN disk.tasks :
                 store.tasks[disk.tasks[j].id].task_number = BackfilledNumber(disk.tasks, j)
           /\ store.next_task_number = Len(disk.tasks) + 1

\* C29: apply_migrations(doc, from, to) returns doc when from = to and
\* FutureVersion(from) when from > to; otherwise it applies the registered
\* steps of the versions from .. to - 1 in that order, and when the step of a
\* version of that range is missing it returns UnsupportedVersion of that
\* version and no document.  Stated at every load, from being the version of
\* the file: of what load returned with the registry of get_migrations, and
\* of the loop run from that version over registries of up to MaxMigrations
\* steps.
MaxMigrations == 3
\* the registry of the steps of the versions 1 .. migrations_len, each step
\* marked with its version
RegistryOf(migrations_len) == [ version \in 1..migrations_len |-> version ]

RECURSIVE StepsApplied(_, _, _)
StepsApplied(data, from_version, to_version) ==
    IF from_version >= to_version THEN data
    ELSE StepsApplied(Append(data, from_version), from_version + 1, to_version)

\* what the claim says apply_migrations returns with a registry of the steps
\* of the versions 1 .. migrations_len
MigrationContract(migrations_len, data, from_version, to_version) ==
    LET missing == { v \in from_version..(to_version - 1) : v < 1 \/ v > migrations_len }
        first_missing == CHOOSE v \in missing : \A w \in missing : v <= w
    IN  IF from_version = to_version THEN MigrationResult("Ok", data, None)
        ELSE IF from_version > to_version
            THEN MigrationResult("FutureVersion", None, from_version)
        ELSE IF missing # {} THEN MigrationResult("UnsupportedVersion", None, first_missing)
        ELSE MigrationResult("Ok", StepsApplied(data, from_version, to_version), None)

MeetsMigrationContract(from_version) ==
    /\ \A migrations_len \in 0..MaxMigrations, to_version \in 0..(MaxMigrations + 1),
          overflow_checks \in Builds :
          ApplyMigrationsWith(RegistryOf(migrations_len), << >>, from_version, to_version,
                              overflow_checks)
            = MigrationContract(migrations_len, << >>, from_version, to_version)
    /\ from_version <= CURRENT_VERSION
          => LET contract == MigrationContract(Len(get_migrations), disk, from_version,
                                               CURRENT_VERSION)
             IN  /\ last.res = contract.res
                 /\ last.version = contract.version

ApplyMigrationsContract ==
    ( last.op = "load" /\ disk # NoFile /\ detect_version(disk).res = "Ok" )
        => MeetsMigrationContract(detect_version(disk).version)

\* C25: load when the store file does not exist is not an error: it returns
\* the empty store (no tasks, projects or areas, next_task_number 1, version
\* CURRENT_VERSION) and creates no store file, no backup and no lock file.
LoadOfMissingFile ==
    [][ ( last'.op = "load" /\ disk.file = NoFile )
          => /\ last'.res = "Ok"
             /\ store' = [ version |-> CURRENT_VERSION, next_task_number |-> 1,
                           tasks |-> EmptyMap, projects |-> EmptyMap, areas |-> EmptyMap ]
             /\ disk' = disk ]_vars

\* a load found no store file, after a failed save had changed the store in
\* memory: the store is the empty one and the directory holds no store file
\* and no backups
LoadOfMissingFileWitness ==
    /\ last.op = "load"
    /\ last.res = "Ok"
    /\ last.saves_failed > 0
    /\ disk.file = NoFile
    /\ store = StoreDefault
    /\ ~ disk.backups_dir

\* C30: after k successive successful saves to a path that did not exist
\* before, the backups directory holds exactly min(k - 1, 5) files, copies of
\* the most recent previous states of the store file; after the first save
\* there is no backups directory.
StoreOfSave(j) == [ StoreDefault EXCEPT !.next_task_number = j + 1 ]

BackupRetention ==
    ( last.saves_failed = 0 /\ last.saves_ok >= 1 )
        => LET k == last.saves_ok
               kept == IF k - 1 < 5 THEN k - 1 ELSE 5
           IN  /\ Cardinality(DOMAIN disk.backups) = kept
               /\ k = 1 => ~ disk.backups_dir
               /\ { disk.backups[e] : e \in DOMAIN disk.backups }
                     = { to_stored(StoreOfSave(j)) : j \in (k - kept)..(k - 1) }
               /\ disk.file = to_stored(StoreOfSave(k))

\* C37: the display context of a task tolerates dangling references.  It is
\* "Area / Project" when the project of the task exists and the area of that
\* project exists, the project name when the project has no area or names an
\* area that does not exist, the name of the task's own area when the task
\* has no project or names a project that does not exist, and absent
\* otherwise; the area of the project takes precedence over the task's own.
Refers(id, m) == id # None /\ id \in DOMAIN m

ToleratesDangling(st, project_id, area_id) ==
    LET context == get_task_context([ project_id |-> project_id, area_id |-> area_id ], st)
        has_project == Refers(project_id, st.projects)
        project_area == IF has_project THEN st.projects[project_id].area_id ELSE None
    IN  /\ ( has_project /\ Refers(project_area, st.areas) )
              => context = << st.areas[project_area].name \o << " ", "/", " " >>
                                \o st.projects[project_id].name >>
        /\ ( has_project /\ ~ Refers(project_area, st.areas) )
              => context = << st.projects[project_id].name >>
        /\ ( ~ has_project /\ Refers(area_id, st.areas) )
              => context = << st.areas[area_id].name >>
        /\ ( ~ has_project /\ ~ Refers(area_id, st.areas) ) => context = << >>

ReferenceIds == { None, 0, 1, 2, 3 }

ContextToleratesDangling ==
    /\ \A project_id \in ReferenceIds, area_id \in ReferenceIds :
          ToleratesDangling(store, project_id, area_id)
    /\ \A t \in DOMAIN store.tasks :
          ToleratesDangling(store, store.tasks[t].project_id, store.tasks[t].area_id)

\* a loaded store where the project of one task names a missing area and
\* another task names a missing project beside an area that exists
ContextToleratesDanglingWitness ==
    /\ Running
    /\ \E t \in DOMAIN store.tasks :
          /\ Refers(store.tasks[t].project_id, store.projects)
          /\ store.projects[store.tasks[t].project_id].area_id # None
          /\ ~ Refers(store.projects[store.tasks[t].project_id].area_id, store.areas)
          /\ Refers(store.tasks[t].area_id, store.areas)
          /\ get_task_context(store.tasks[t], store) = << << "a" >> >>
    /\ \E t \in DOMAIN store.tasks :
          /\ store.tasks[t].project_id # None
          /\ ~ Refers(store.tasks[t].project_id, store.projects)
          /\ get_task_context(store.tasks[t], store) = << << "A", "b" >> >>

\* C38: delete_area and delete_project change nothing but the deleted_at of
\* the target and of its children that were active at the call.  A child
\* already deleted keeps its deleted_at, and every entity outside the
\* hierarchy of the target is unchanged: other areas, projects of other
\* areas, tasks of other projects, and tasks with a project outside the area
\* even when their own area_id is the deleted area.
OnlyStamped(before, after, targets) ==
    /\ DOMAIN after = DOMAIN before
    /\ \A id \in DOMAIN before :
          IF id \in targets /\ Active(before[id])
          THEN after[id] = [ before[id] EXCEPT !.deleted_at = after[id].deleted_at ]
          ELSE after[id] = before[id]

ProjectsBelowArea(st, area_id) == { p \in DOMAIN st.projects : st.projects[p].area_id = area_id }

TasksBelowProjects(st, projects) ==
    { t \in DOMAIN st.tasks : st.tasks[t].project_id \in projects }

DirectTasksOfArea(st, area_id) ==
    { t \in DOMAIN st.tasks : st.tasks[t].area_id = area_id /\ st.tasks[t].project_id = None }

DeletionFrame ==
    [][ /\ Succeeded(last', "delete_area") =>
            /\ store'.version = store.version
            /\ store'.next_task_number = store.next_task_number
            /\ OnlyStamped(store.areas, store'.areas, { last'.id })
            /\ OnlyStamped(store.projects, store'.projects, ProjectsBelowArea(store, last'.id))
            /\ OnlyStamped(store.tasks, store'.tasks,
                           TasksBelowProjects(store, ProjectsBelowArea(store, last'.id))
                               \cup DirectTasksOfArea(store, last'.id))
        /\ Succeeded(last', "delete_project") =>
            /\ store'.version = store.version
            /\ store'.next_task_number = store.next_task_number
            /\ store'.areas = store.areas
            /\ OnlyStamped(store.projects, store'.projects, { last'.id })
            /\ OnlyStamped(store.tasks, store'.tasks, TasksBelowProjects(store, { last'.id }))
      ]_vars

\* delete_area has deleted an area below which a task was deleted earlier, at
\* another instant, and that task carries the earlier instant still
DeletionFrameWitness ==
    /\ Succeeded(last, "delete_area")
    /\ last.cascaded_tasks_count > 0
    /\ \E t \in DOMAIN store.tasks :
          /\ \/ store.tasks[t].area_id = last.id /\ store.tasks[t].project_id = None
             \/ /\ Refers(store.tasks[t].project_id, store.projects)
                /\ store.projects[store.tasks[t].project_id].area_id = last.id
          /\ Deleted(store.tasks[t])
          /\ store.tasks[t].deleted_at # store.areas[last.id].deleted_at

\* C39: in a run of one process that starts with load, after every lifecycle
\* operation that returns success the file agrees with memory: load of the
\* file at that point returns a store equal to the store in memory, in its
\* entities, their field values, next_task_number and version.
FileAgreesWithMemory ==
    ( last.op \in LifecycleOperations /\ last.res = "Ok" )
        => \A overflow_checks \in Builds :
              LET loaded == load(disk, overflow_checks)
              IN  /\ loaded.res = "Ok"
                  /\ loaded.store.tasks = store.tasks
                  /\ loaded.store.projects = store.projects
                  /\ loaded.store.areas = store.areas
                  /\ loaded.store.next_task_number = store.next_task_number
                  /\ loaded.store.version = store.version

\* a task created in this run was completed, after a load of a file that
\* held entities, and the file is the one the operation wrote
FileAgreesWithMemoryWitness ==
    /\ Succeeded(last, "complete_task")
    /\ last.saves = 1
    /\ store.tasks[last.id].completed_at # None
    /\ store.next_task_number > 1
    /\ store.areas # EmptyMap

\* C40: a save that returns an error has not replaced the store file:
\* whichever step fails (writing the temporary file, opening or locking the
\* lock file, the backup, the pruning of the backups, the rename, the unlock),
\* the store file holds the content it held before the call.
FailedSaveKeepsFile ==
    [][ ( last'.op = "save" /\ last'.res # "Ok"
            /\ last'.saves_failed = last.saves_failed + 1 )
          => disk'.file = disk.file ]_vars

\* the steps of save between lock_exclusive and unlock
LockedSteps == { "backup", "cleanup", "rename", "unlock" }

\* C33: saves that run side by side are serialized by the lock file: at most
\* one process stands between its lock_exclusive and its unlock, so that the
\* backup, the pruning and the rename of two saves never interleave; and the
\* store file changes only by the rename of a save, to the whole serialized
\* store of that save, so that it ends as the store of the last rename.
SavesSerialized ==
    /\ [] ( \A p, q \in Processes :
              ( last[p].pc \in LockedSteps /\ last[q].pc \in LockedSteps ) => p = q )
    /\ [][ disk'.file # disk.file
             => \E p \in Processes :
                   /\ last[p].pc = "rename"
                   /\ last'[p].pc = "unlock"
                   /\ disk'.file = to_stored(store[p]) ]_vars

\* a process has renamed its file and unlocked, a second one has then taken
\* the lock and renamed its own, while the store file existed before both
SavesSerializedWitness ==
    \E p, q \in Processes :
        /\ p # q
        /\ last[p].pc = "done"
        /\ last[q].pc = "unlock"
        /\ disk.locked_by = q
        /\ disk.file = to_stored(store[q])
        /\ Cardinality(DOMAIN disk.backups) = BackupsKept

\* C34: the lock is held only while a save is in progress: the process that
\* holds it stands between lock_exclusive and unlock, so once save has
\* returned, Ok or BackupFailed or CleanupFailed or SaveFailed, the process
\* holds it no longer.
LockOnlyDuringSave ==
    \A p \in Processes : disk.locked_by = p => last[p].pc \in LockedSteps

\* save has returned an error from a step it took with the lock held, the
\* other process has since taken the lock
LockOnlyDuringSaveWitness ==
    \E p, q \in Processes :
        /\ last[p].pc = "exited"
        /\ last[p].at \in LockedSteps
        /\ disk.locked_by = q
        /\ p # q

\* C31: within a save the backup of the file as it was before the write is
\* complete before the rename, so a process that is killed between the backup
\* and the rename leaves the store file as it was together with a backup
\* equal to it, and one that is killed after the rename leaves the store file
\* holding the whole new content.
CrashLeavesOldOrNew ==
    [][ \A p \in Processes :
          last'[p].pc = "crashed"
            => /\ ( last[p].pc \in { "cleanup", "rename" } /\ disk.file # NoFile )
                    => /\ disk'.file = disk.file
                       /\ \E e \in DOMAIN disk'.backups : disk'.backups[e] = disk'.file
               /\ last[p].pc = "unlock" => disk'.file = to_stored(store[p]) ]_vars

\* C32: a load that runs while saves run reads the store file as a whole
\* content, the one before or the one after a save, never a part of one: the
\* store file loads at every instant, and no load of a process has failed.
LoadReadsWholeFile ==
    /\ \A overflow_checks \in Builds : load(disk.file, overflow_checks).res = "Ok"
    /\ \A p \in Processes : ~ ( last[p].pc = "exited" /\ last[p].at = "load" )

\* a process has loaded the task another one has just renamed into place,
\* before that save has returned, and has begun to write its own file
LoadReadsWholeFileWitness ==
    \E p, q \in Processes :
        /\ p # q
        /\ last[q].pc = "unlock"
        /\ last[p].pc = "fill"
        /\ q \in DOMAIN store[p].tasks
        /\ disk.temp_files[p] = Truncated(to_stored(store[p]))

\* C35: a save that waits for the lock is granted it in the end, as long as
\* the processes that are alive keep running, and every save call returns in
\* the end unless its process is killed: no save waits for ever.
SavesReturn ==
    \A p \in Processes :
        /\ ( last[p].pc = "lock" ) ~> ( last[p].pc # "lock" )
        /\ ( last[p].pc \in SaveSteps ) ~> ( last[p].pc \in { "done", "exited", "crashed" } )

\* a save waits for the lock another save holds
SavesReturnWitness ==
    \E p, q \in Processes :
        /\ last[p].pc = "lock"
        /\ disk.locked_by = q
        /\ last[q].pc = "rename"

\* C36: no two tasks created against the same store file carry the same
\* task_number: two invocations that run side by side, each loading, adding
\* a task and saving, report different numbers, and the file holds both
\* tasks once both have returned.
DistinctTaskNumbers ==
    \A p, q \in Processes :
        ( p # q /\ last[p].pc = "done" /\ last[q].pc = "done" )
            => /\ last[p].number # last[q].number
               /\ \A overflow_checks \in Builds :
                     { p, q } \subseteq DOMAIN load(disk.file, overflow_checks).store.tasks

====
